---- MODULE Spec2Model ----
(***************************************************************************)
(* QuestStream: answer grading (quiz_engine.py), the persisted             *)
(* wrong-question list and statistics (storage.py, models.py) and the      *)
(* PySide6 quiz window's round (qt_app.py, class QuizWindow).              *)
(*                                                                         *)
(* Strings are sequences of characters.  A character is written as a short *)
(* token: "A".."Z" and "a".."z" are the ASCII letters, "FW_A".."FW_Z" and  *)
(* "fw_a".."fw_z" the full-width letters U+FF21.. and U+FF41.., "0" and    *)
(* "1" digits, " " the space, "TAB" and "NL" the other white space,        *)
(* "juhao" the ideographic full stop U+3002, and "dui" "cuo" "zheng" "que" *)
(* "wu" the characters U+5BF9 U+9519 U+6B63 U+786E U+8BEF.                 *)
(***************************************************************************)
EXTENDS Integers, Sequences, FiniteSets, TLC

\* ------------------------------------------------------------------------
\* Bounds of the model
\* ------------------------------------------------------------------------

\* longest answer string (in characters, or vocabulary pieces) drawn as an input
MaxLen == 2

\* ------------------------------------------------------------------------
\* config.py: the question type tags
\* ------------------------------------------------------------------------

QTYPE_SINGLE == "single"

QTYPE_BLANK == "blank"

QTYPE_TF == "tf"

QTYPE_SHORT == "short"

\* a tag that is none of the four (Question.from_dict defaults q_type to "")
QTYPE_UNKNOWN == ""

QTypes == {QTYPE_SINGLE, QTYPE_BLANK, QTYPE_TF, QTYPE_SHORT}

\* ------------------------------------------------------------------------
\* Characters and the str methods the grading code uses
\* ------------------------------------------------------------------------

HalfUpper ==
    << "A", "B", "C", "D", "E", "F", "G", "H", "I", "J", "K", "L", "M",
       "N", "O", "P", "Q", "R", "S", "T", "U", "V", "W", "X", "Y", "Z" >>

HalfLower ==
    << "a", "b", "c", "d", "e", "f", "g", "h", "i", "j", "k", "l", "m",
       "n", "o", "p", "q", "r", "s", "t", "u", "v", "w", "x", "y", "z" >>

FullUpper ==
    << "FW_A", "FW_B", "FW_C", "FW_D", "FW_E", "FW_F", "FW_G", "FW_H", "FW_I", "FW_J", "FW_K", "FW_L", "FW_M",
       "FW_N", "FW_O", "FW_P", "FW_Q", "FW_R", "FW_S", "FW_T", "FW_U", "FW_V", "FW_W", "FW_X", "FW_Y", "FW_Z" >>

FullLower ==
    << "fw_a", "fw_b", "fw_c", "fw_d", "fw_e", "fw_f", "fw_g", "fw_h", "fw_i", "fw_j", "fw_k", "fw_l", "fw_m",
       "fw_n", "fw_o", "fw_p", "fw_q", "fw_r", "fw_s", "fw_t", "fw_u", "fw_v", "fw_w", "fw_x", "fw_y", "fw_z" >>

Range(s) == {s[i] : i \in 1..Len(s)}

IndexIn(table, c) == CHOOSE i \in 1..Len(table) : table[i] = c

\* str.upper() on one character
UpperChar(c) ==
    IF c \in Range(HalfLower) THEN HalfUpper[IndexIn(HalfLower, c)]
    ELSE IF c \in Range(FullLower) THEN FullUpper[IndexIn(FullLower, c)]
    ELSE c

\* str.upper()
Upper(s) == [i \in 1..Len(s) |-> UpperChar(s[i])]

\* the characters str.strip() removes and the regex class \s matches
WhiteSpace == {" ", "TAB", "NL"}

RECURSIVE LStrip(_)
LStrip(s) ==
    IF s # <<>> /\ Head(s) \in WhiteSpace THEN LStrip(Tail(s)) ELSE s

RECURSIVE RStrip(_)
RStrip(s) ==
    IF s # <<>> /\ s[Len(s)] \in WhiteSpace
    THEN RStrip(SubSeq(s, 1, Len(s) - 1))
    ELSE s

\* str.strip()
Strip(s) == RStrip(LStrip(s))

\* str.replace(c, "") for a one-character c
RemoveChar(s, c) ==
    LET keep(x) == x # c IN SelectSeq(s, keep)

\* ------------------------------------------------------------------------
\* quiz_engine.py: normalisation and grading
\* ------------------------------------------------------------------------

\* the characters the regex class [A-H] plus full-width A-H matches
LabelChars ==
    {HalfUpper[i] : i \in 1..8} \cup {FullUpper[i] : i \in 1..8}

\* re.findall of that class in s: the matching characters, in order
FindLabels(s) ==
    LET isLabel(c) == c \in LabelChars IN SelectSeq(s, isLabel)

\* str.translate of the full-width letters A-H to the half-width ones
TranslateFull(c) ==
    IF \E i \in 1..8 : FullUpper[i] = c
    THEN HalfUpper[CHOOSE i \in 1..8 : FullUpper[i] = c]
    ELSE c

\* _normalize_option_label on a one-character label
NormalizeOptionLabel(c) ==
    LET stripped == Strip(<<c>>)
    IN IF stripped = <<>> THEN <<>>
       ELSE <<TranslateFull(UpperChar(stripped[1]))>>

\* code point order of the half-width capitals
Ord(c) == IndexIn(HalfUpper, c)

\* sorted(set(labels)) for one-character strings
RECURSIVE SortedSet(_)
SortedSet(S) ==
    IF S = {} THEN <<>>
    ELSE LET m == CHOOSE x \in S : \A y \in S : Ord(x) <= Ord(y)
         IN <<m>> \o SortedSet(S \ {m})

\* [_normalize_option_label(ch) for ch in labels], sorted(set(..)), "".join
JoinSortedLabels(labels) ==
    LET norm == {NormalizeOptionLabel(labels[i]) : i \in 1..Len(labels)}
    IN SortedSet({l[1] : l \in norm \ {<<>>}})

NormalizeSingleCorrectAnswer(ans) == JoinSortedLabels(FindLabels(Upper(ans)))

\* a variant that leaves out the upper-casing of the user's input
NormalizeSingleUserAnswerCaseSensitive(raw) ==
    LET r == Strip(raw)
    IN IF r = <<>> THEN <<>> ELSE JoinSortedLabels(FindLabels(r))

NormalizeSingleUserAnswer(raw) ==
    LET r == Upper(Strip(raw))
    IN IF r = <<>> THEN <<>> ELSE JoinSortedLabels(FindLabels(r))

TrueWords ==
    { <<"dui">>, <<"zheng", "que">>, <<"T">>, <<"T", "R", "U", "E">>,
      <<"Y">>, <<"Y", "E", "S">>, <<"1">> }

FalseWords ==
    { <<"cuo">>, <<"cuo", "wu">>, <<"F">>, <<"F", "A", "L", "S", "E">>,
      <<"N">>, <<"N", "O">>, <<"0">> }

NormalizeTfCorrectAnswer(ans) ==
    LET s == Upper(RemoveChar(RemoveChar(Strip(ans), " "), "juhao"))
    IN IF s \in TrueWords THEN <<"T">>
       ELSE IF s \in FalseWords THEN <<"F">>
       ELSE s

\* a variant that leaves out the upper-casing of the user's input
NormalizeTfUserAnswerNoUpper(raw) ==
    LET s == RemoveChar(RemoveChar(Strip(raw), " "), "juhao")
    IN IF s \in TrueWords THEN <<"T">>
       ELSE IF s \in FalseWords THEN <<"F">>
       ELSE s

NormalizeTfUserAnswer(raw) ==
    LET s == Upper(RemoveChar(RemoveChar(Strip(raw), " "), "juhao"))
    IN IF s \in TrueWords THEN <<"T">>
       ELSE IF s \in FalseWords THEN <<"F">>
       ELSE s

\* re.sub(r"\s+", " ", s): every white-space run becomes one space
RECURSIVE CollapseSpace(_)
CollapseSpace(s) ==
    IF s = <<>> THEN <<>>
    ELSE IF Head(s) \in WhiteSpace
         THEN <<" ">> \o CollapseSpace(LStrip(s))
         ELSE <<Head(s)>> \o CollapseSpace(Tail(s))

NormalizeTextAnswer(ans) == CollapseSpace(Strip(ans))

Triple(ok, user, correct) ==
    [is_correct |-> ok, user_norm |-> user, correct_norm |-> correct]

\* the verdict of the single-choice branch
SingleVerdict(user_norm, correct_norm) ==
    user_norm = correct_norm /\ correct_norm # <<>>

\* a variant that compares the two sides without the token check
TfVerdictNoTokenCheck(user_norm, correct_norm) == user_norm = correct_norm

\* the verdict of the true/false branch
TfVerdict(user_norm, correct_norm) ==
    user_norm = correct_norm /\ correct_norm \in {<<"T">>, <<"F">>}

\* a variant that lets an empty reference match
BlankVerdictEmptyMatches(user_norm, correct_norm) == user_norm = correct_norm

\* the verdict of the fill-in branch
BlankVerdict(user_norm, correct_norm) ==
    user_norm = correct_norm /\ correct_norm # <<>>

\* the verdict of the short-answer branch
ShortVerdict(user_norm, correct_norm) == FALSE

\* a variant that grades an unrecognised type like a fill-in question
OtherVerdictCompares(user_norm, correct_norm) ==
    user_norm = correct_norm /\ correct_norm # <<>>

\* the verdict of the fall-through for any other type tag
OtherVerdict(user_norm, correct_norm) == FALSE

CheckAnswer(question, user_raw) ==
    IF question.q_type = QTYPE_SINGLE THEN
        LET correct_norm == NormalizeSingleCorrectAnswer(question.answer)
            user_norm == NormalizeSingleUserAnswer(user_raw)
        IN Triple(SingleVerdict(user_norm, correct_norm), user_norm, correct_norm)
    ELSE IF question.q_type = QTYPE_TF THEN
        LET correct_norm == NormalizeTfCorrectAnswer(question.answer)
            user_norm == NormalizeTfUserAnswer(user_raw)
        IN Triple(TfVerdict(user_norm, correct_norm), user_norm, correct_norm)
    ELSE IF question.q_type = QTYPE_BLANK THEN
        LET correct_norm == NormalizeTextAnswer(question.answer)
            user_norm == NormalizeTextAnswer(user_raw)
        IN Triple(BlankVerdict(user_norm, correct_norm), user_norm, correct_norm)
    ELSE IF question.q_type = QTYPE_SHORT THEN
        LET correct_norm == NormalizeTextAnswer(question.answer)
            user_norm == NormalizeTextAnswer(user_raw)
        IN Triple(ShortVerdict(user_norm, correct_norm), user_norm, correct_norm)
    ELSE
        LET correct_norm == NormalizeTextAnswer(question.answer)
            user_norm == NormalizeTextAnswer(user_raw)
        IN Triple(OtherVerdict(user_norm, correct_norm), user_norm, correct_norm)

\* ------------------------------------------------------------------------
\* models.py and storage.py: questions, the wrong-question file, statistics
\* ------------------------------------------------------------------------

\* upper bound kept on the persisted total_answered counter
MaxAnswered == 2

\* largest value the question-count spin box is set to
MaxCount == 2

\* most toggles the user makes in one wrong-book overview dialog
MaxToggles == 1

\* the question bank file (a list of question dicts with pairwise distinct ids)
Bank ==
    << [id |-> 1, q_type |-> QTYPE_SINGLE, answer |-> <<"A">>,
        options |-> [l \in {"A", "B"} |-> "text"]],
       [id |-> 2, q_type |-> QTYPE_TF, answer |-> <<"zheng", "que">>,
        options |-> <<>>],
       [id |-> 3, q_type |-> QTYPE_BLANK, answer |-> <<"x">>,
        options |-> <<>>] >>

\* another bank: a short-answer question, and a single-choice question whose
\* options the parser did not find
ShortBank ==
    << [id |-> 4, q_type |-> QTYPE_SHORT, answer |-> <<"y">>,
        options |-> <<>>],
       [id |-> 5, q_type |-> QTYPE_SINGLE, answer |-> <<"B">>,
        options |-> <<>>] >>

\* the contents questions.json may have
Banks == {Bank, ShortBank}

\* Question.to_dict: dataclasses.asdict keeps the declared fields only, so an
\* instance attribute such as wrong_count is not written
ToDict(q) ==
    [id |-> q.id, q_type |-> q.q_type, answer |-> q.answer, options |-> q.options]

\* Question.from_dict: the object has the declared fields; wrong_count, which
\* is no declared field, is absent (<<>>) until some handler assigns it
FromDict(d) ==
    [id |-> d.id, q_type |-> d.q_type, answer |-> d.answer,
     options |-> d.options, wrong_count |-> <<>>]

\* getattr(q, "wrong_count", 0)
GetAttrWrongCount(q) ==
    IF q.wrong_count = <<>> THEN 0 ELSE q.wrong_count[1]

LoadQuestions(file) == [i \in 1..Len(file) |-> FromDict(file[i])]

SaveQuestions(list) == [i \in 1..Len(list) |-> ToDict(list[i])]

Ids(list) == {list[i].id : i \in 1..Len(list)}

\* a variant that appends without looking for the key
DictPutAppend(by_id, q) == Append(by_id, q)

\* by_id[q.id] = q on a dict kept as the list of its values in insertion
\* order: an existing key keeps its place and takes the new value
DictPut(by_id, q) ==
    IF q.id \in Ids(by_id)
    THEN [i \in 1..Len(by_id) |-> IF by_id[i].id = q.id THEN q ELSE by_id[i]]
    ELSE Append(by_id, q)

\* by_id.pop(id, None)
DictPop(by_id, id) ==
    LET keep(x) == x.id # id IN SelectSeq(by_id, keep)

\* {q.id: q for q in list}
RECURSIVE ByIdFrom(_, _)
ByIdFrom(list, acc) ==
    IF list = <<>> THEN acc ELSE ByIdFrom(Tail(list), DictPut(acc, Head(list)))

ById(list) == ByIdFrom(list, <<>>)

\* dict.get(k, default) and d[k] = v on a dict kept as a function
Get(d, k, default) == IF k \in DOMAIN d THEN d[k] ELSE default

Put(d, k, v) == [x \in (DOMAIN d) \cup {k} |-> IF x = k THEN v ELSE d[x]]

EmptyDict == <<>>

\* sum(d.values())
RECURSIVE SumOver(_, _)
SumOver(d, keys) ==
    IF keys = {} THEN 0
    ELSE LET k == CHOOSE x \in keys : TRUE
         IN d[k] + SumOver(d, keys \ {k})

SumValues(d) == SumOver(d, DOMAIN d)

\* storage._default_stats
DefaultStats ==
    [total_answered |-> 0, total_correct |-> 0,
     per_type_total |-> EmptyDict, per_type_correct |-> EmptyDict]

\* storage.load_stats on a file that holds a dict: base.update(stats)
LoadStats(file) ==
    [k \in (DOMAIN DefaultStats) \cup (DOMAIN file) |->
        IF k \in DOMAIN file THEN file[k] ELSE DefaultStats[k]]

\* d1 with every entry of d2 added to it: d1[k] = d1.get(k, 0) + n
AddInto(d1, d2) ==
    [k \in (DOMAIN d1) \cup (DOMAIN d2) |-> Get(d1, k, 0) + Get(d2, k, 0)]

\* quiz_engine._update_stats: the statistics file after the call
UpdateStats(file, round_total, round_correct) ==
    IF round_total = EmptyDict THEN file
    ELSE
        LET stats == LoadStats(file)
            s1 == Put(stats, "total_answered",
                      Get(stats, "total_answered", 0) + SumValues(round_total))
            s2 == Put(s1, "total_correct",
                      Get(s1, "total_correct", 0) + SumValues(round_correct))
            pa == Get(s2, "per_type_answered", EmptyDict)
            pc == Get(s2, "per_type_correct", EmptyDict)
            s3 == Put(s2, "per_type_answered", AddInto(pa, round_total))
        IN Put(s3, "per_type_correct", AddInto(pc, round_correct))

\* ------------------------------------------------------------------------
\* State
\* ------------------------------------------------------------------------

VARIABLES
    questionsFile,        \* questions.json: a list of question dicts
    wrongFile,            \* wrong_questions.json: a list of question dicts
    statsFile,            \* stats.json: a dict
    mode,                 \* QuizWindow.mode ("none" for None)
    current_questions,    \* the round's Question objects, in round order
    current_index,        \* 0-based position in the round, -1 when there is none
    waiting_answer,
    per_type_total,
    per_type_correct,
    wrong_in_session,     \* keys of the dict in insertion order; the value of a
                          \* key is the round's object with that id
    wrong_book_map,       \* id -> "loaded" (an object read from the file) or
                          \* "session" (the round's object with that id)
    index_status,
    user_answers,
    current_option_value,
    option_buttons,       \* the values of the radio buttons on display
    short_answer_text,    \* short_answer_edit.toPlainText()
    short_answer_visible,
    wrongAtBegin,         \* history: id -> wrong_count read back from the
                          \* wrong-question file when the round began
    everAdded,            \* history: ids ever put into the wrong-question file
    statsAtBegin,         \* history: the statistics file when the round began
    g_question,           \* grading run: the question,
    g_user_raw,           \* the raw user answer,
    g_result,             \* and <<the triple _check_answer returned>>
    program,              \* the program in use: "qt_app" or "gui_app"
    current_mode,         \* gui_app.QuizApp.current_mode ("none" for None)
    tk_current_questions, \* QuizApp.current_questions
    tk_current_index,     \* QuizApp.current_index
    tk_per_type_total,    \* QuizApp.per_type_total
    tk_per_type_correct,  \* QuizApp.per_type_correct
    tk_wrong_in_session,  \* QuizApp.wrong_in_session: its keys in insertion order
    is_waiting_answer,
    option_var,
    answer_var,
    options_frame,        \* the values of the radio buttons in options_frame
    answer_entry_mapped,  \* whether answer_entry is on display
    tkStatus,             \* history: per question of the QuizApp round,
                          \* "unanswered", "correct" or "wrong"
    paragraphs,           \* parser run: document.paragraphs, each its text
    para_index,           \* how many paragraphs the loop has consumed
    current,              \* _parse_document: <<>> for None, else <<the dict>>
    state,                \* "none" for None, "question", "options", "answer"
    current_section_type, \* "" for None
    questions_raw,
    parsed_questions,     \* <<>> until built, then <<the sorted Question list>>
    file_state,           \* loader run: the state of the file that is read
    load_result           \* <<>> until loaded, then <<what the loader did>>

persistVars == <<wrongFile, statsFile>>

sessionVars ==
    <<mode, current_questions, current_index, waiting_answer, per_type_total,
      per_type_correct, wrong_in_session, wrong_book_map, index_status,
      user_answers>>

widgetVars ==
    <<current_option_value, option_buttons, short_answer_text,
      short_answer_visible>>

beginVars == <<wrongAtBegin, statsAtBegin>>

historyVars == <<beginVars, everAdded>>

gradeVars == <<g_question, g_user_raw, g_result>>

tkVars ==
    <<current_mode, tk_current_questions, tk_current_index, tk_per_type_total,
      tk_per_type_correct, tk_wrong_in_session, is_waiting_answer, option_var,
      answer_var, options_frame, answer_entry_mapped, tkStatus>>

parseVars ==
    <<paragraphs, para_index, current, state, current_section_type,
      questions_raw, parsed_questions>>

loadVars == <<file_state, load_result>>

\* the runs of the grader, of the parser and of the loaders
runVars == <<gradeVars, parseVars, loadVars>>

\* what no handler of the quiz window writes
restVars == <<questionsFile, runVars, program, tkVars>>

vars == <<persistVars, sessionVars, widgetVars, historyVars, restVars>>

\* ------------------------------------------------------------------------
\* qt_app.py, QuizWindow: helpers
\* ------------------------------------------------------------------------

\* QuizWindow.current_question
CurrentQuestion == current_questions[current_index + 1]

\* the round's object with the given id
RoundObject(id) ==
    current_questions[CHOOSE i \in 1..Len(current_questions) :
                          current_questions[i].id = id]

\* q.wrong_count = n on the round's object with the given id
SetWrongCount(qs, id, n) ==
    [i \in 1..Len(qs) |->
        IF qs[i].id = id THEN [qs[i] EXCEPT !.wrong_count = <<n>>] ELSE qs[i]]

Max(a, b) == IF a >= b THEN a ELSE b

\* _refresh_wrong_book_cache: {q.id: q for q in load_wrong_questions()}
RefreshWrongBookCache(file) == [id \in Ids(file) |-> "loaded"]

\* _get_wrong_count for a question of the round
GetWrongCount(q) ==
    IF q.id \in DOMAIN wrong_book_map
    THEN IF wrong_book_map[q.id] = "session"
         THEN GetAttrWrongCount(RoundObject(q.id))
         ELSE GetAttrWrongCount(FromDict(ToDict(q)))
    ELSE GetAttrWrongCount(q)

\* a variant that leaves the file as it was
SaveWrongQuestionNotWritten(file, q) == file

\* _save_wrong_question_immediately: the file it writes
SaveWrongQuestionImmediately(file, q) ==
    SaveQuestions(DictPut(ById(LoadQuestions(file)), q))

\* _save_wrong_question_immediately: the wrong_count it assigns to q
SavedWrongCount(file, q) ==
    LET by_id == ById(LoadQuestions(file))
        prev_count ==
            IF q.id \in Ids(by_id)
            THEN GetAttrWrongCount(
                     by_id[CHOOSE i \in 1..Len(by_id) : by_id[i].id = q.id])
            ELSE 0
    IN prev_count + 1

\* _toggle_wrong_book_entry: the file it writes
ToggleWrongBookEntry(file, q) ==
    LET by_id == ById(LoadQuestions(file))
    IN IF q.id \in Ids(by_id)
       THEN SaveQuestions(DictPop(by_id, q.id))
       ELSE SaveQuestions(DictPut(by_id, q))

\* the radio buttons _show_current_question builds for q
ButtonsFor(q) ==
    IF q.q_type = QTYPE_SINGLE THEN {<<l>> : l \in DOMAIN q.options}
    ELSE IF q.q_type = QTYPE_TF THEN {<<"zheng", "que">>, <<"cuo", "wu">>}
    ELSE {}

\* whether _show_current_question shows the text box for q
ShowsTextBox(q) ==
    \/ q.q_type = QTYPE_SINGLE /\ DOMAIN q.options = {}
    \/ q.q_type \notin {QTYPE_SINGLE, QTYPE_TF}

\* _show_current_question for q, whose cached answer is saved
ShowCurrentQuestion(q, saved) ==
    /\ option_buttons' = ButtonsFor(q)
    /\ current_option_value' =
           IF ButtonsFor(q) # {} /\ saved # <<>> THEN saved ELSE <<>>
    /\ short_answer_visible' = ShowsTextBox(q)
    /\ short_answer_text' =
           IF ShowsTextBox(q)
           THEN (IF q.q_type \notin {QTYPE_SINGLE, QTYPE_TF} THEN saved ELSE <<>>)
           ELSE short_answer_text

\* _cache_current_answer: user_answers after it
CacheCurrentAnswer ==
    IF current_index < 0 \/ current_index >= Len(user_answers)
    THEN user_answers
    ELSE [user_answers EXCEPT ![current_index + 1] =
            IF CurrentQuestion.q_type \in {QTYPE_SINGLE, QTYPE_TF}
            THEN current_option_value
            ELSE Strip(short_answer_text)]

\* a variant that draws with replacement
ArrangementsWithRepeats(pool, n) ==
    {[i \in 1..n |-> pool[f[i]]] : f \in [1..n -> 1..Len(pool)]}

\* the lists random.sample(pool, k = n) followed by random.shuffle can give
Arrangements(pool, n) ==
    {[i \in 1..n |-> pool[f[i]]] :
        f \in {g \in [1..n -> 1..Len(pool)] :
                  \A i, j \in 1..n : i # j => g[i] # g[j]}}

Min(a, b) == IF a <= b THEN a ELSE b

\* ------------------------------------------------------------------------
\* qt_app.py, QuizWindow: the handlers
\* ------------------------------------------------------------------------

\* _begin_quiz(questions, m); questions is already in its shuffled order
BeginQuiz(questions, m) ==
    LET cache == RefreshWrongBookCache(wrongFile)
        qs == [i \in 1..Len(questions) |->
                 IF questions[i].id \in DOMAIN cache
                 THEN [questions[i] EXCEPT !.wrong_count =
                          <<GetAttrWrongCount(FromDict(ToDict(questions[i])))>>]
                 ELSE questions[i]]
    IN /\ mode' = m
       /\ wrong_book_map' = cache
       /\ current_questions' = qs
       /\ current_index' = 0
       /\ per_type_total' = EmptyDict
       /\ per_type_correct' = EmptyDict
       /\ wrong_in_session' = <<>>
       /\ waiting_answer' = TRUE
       /\ index_status' = [i \in 1..Len(qs) |-> "unanswered"]
       /\ user_answers' = [i \in 1..Len(qs) |-> <<>>]
       /\ option_buttons' = ButtonsFor(qs[1])
       /\ current_option_value' = <<>>
       /\ short_answer_visible' = ShowsTextBox(qs[1])
       /\ short_answer_text' = <<>>
       /\ wrongAtBegin' =
              [id \in Ids(wrongFile) |->
                  GetAttrWrongCount(
                      LoadQuestions(wrongFile)[
                          CHOOSE i \in 1..Len(wrongFile) : wrongFile[i].id = id])]
       /\ statsAtBegin' = statsFile
       /\ UNCHANGED <<persistVars, everAdded, restVars>>

\* on_start_normal with the type combo at qtype_data and the spin box at n
OnStartNormal(qtype_data, n) ==
    LET all_questions == LoadQuestions(questionsFile)
        inPool(q) == qtype_data = "all" \/ q.q_type = qtype_data
        pool == SelectSeq(all_questions, inPool)
    IN IF all_questions = <<>> \/ pool = <<>>
       THEN UNCHANGED vars
       ELSE \E questions \in Arrangements(pool, Min(n, Len(pool))) :
                BeginQuiz(questions, "normal")

\* on_start_wrong with the spin box at n
OnStartWrong(n) ==
    LET wrong_all == LoadQuestions(wrongFile)
    IN IF wrong_all = <<>>
       THEN /\ mode' = "none"
            /\ current_questions' = <<>>
            /\ current_index' = -1
            /\ index_status' = <<>>
            /\ user_answers' = <<>>
            /\ option_buttons' = {}
            /\ current_option_value' = <<>>
            /\ short_answer_visible' = FALSE
            /\ UNCHANGED <<persistVars, waiting_answer, per_type_total,
                           per_type_correct, wrong_in_session, wrong_book_map,
                           short_answer_text, historyVars, restVars>>
       ELSE \E questions \in Arrangements(wrong_all, Min(n, Len(wrong_all))) :
                BeginQuiz(questions, "wrong")

\* a radio button's toggled handler (_make_option_handler) with checked = True
SelectOption(value) ==
    /\ value \in option_buttons
    /\ current_option_value' = value
    /\ user_answers' =
           IF 0 <= current_index /\ current_index < Len(user_answers)
           THEN [user_answers EXCEPT ![current_index + 1] = value]
           ELSE user_answers
    /\ UNCHANGED <<persistVars, mode, current_questions, current_index,
                   waiting_answer, per_type_total, per_type_correct,
                   wrong_in_session, wrong_book_map, index_status,
                   option_buttons, short_answer_text, short_answer_visible,
                   historyVars, restVars>>

\* the user edits the text box
TypeAnswer(text) ==
    /\ short_answer_visible
    /\ short_answer_text' = text
    /\ UNCHANGED <<persistVars, sessionVars, current_option_value,
                   option_buttons, short_answer_visible, historyVars, restVars>>

\* _handle_submit_answer
HandleSubmitAnswer ==
    LET q == CurrentQuestion
        choice == q.q_type \in {QTYPE_SINGLE, QTYPE_TF}
        user_raw == IF choice THEN Strip(current_option_value)
                    ELSE Strip(short_answer_text)
        is_correct == CheckAnswer(q, user_raw).is_correct
        t == q.q_type
        idx == current_index
    IN IF choice /\ user_raw = <<>>
       THEN UNCHANGED vars
       ELSE
         /\ per_type_total' = Put(per_type_total, t, Get(per_type_total, t, 0) + 1)
         /\ IF is_correct
            THEN /\ per_type_correct' =
                        Put(per_type_correct, t, Get(per_type_correct, t, 0) + 1)
                 /\ UNCHANGED <<wrong_in_session, wrongFile, wrong_book_map,
                                current_questions, everAdded>>
            ELSE /\ per_type_correct' = per_type_correct
                 /\ wrong_in_session' =
                        IF q.id \in Range(wrong_in_session) THEN wrong_in_session
                        ELSE Append(wrong_in_session, q.id)
                 /\ current_questions' =
                        SetWrongCount(current_questions, q.id,
                                      SavedWrongCount(wrongFile, q))
                 /\ wrongFile' = SaveWrongQuestionImmediately(wrongFile, q)
                 /\ wrong_book_map' =
                        [id \in Ids(wrongFile) \cup {q.id} |->
                            IF id = q.id THEN "session" ELSE "loaded"]
                 /\ everAdded' = everAdded \cup {q.id}
         /\ index_status' =
                IF 0 <= idx /\ idx < Len(index_status)
                THEN [index_status EXCEPT ![idx + 1] =
                         IF is_correct THEN "correct" ELSE "wrong"]
                ELSE index_status
         /\ user_answers' =
                IF 0 <= idx /\ idx < Len(user_answers)
                THEN [user_answers EXCEPT ![idx + 1] = user_raw]
                ELSE user_answers
         /\ statsFile' =
                UpdateStats(statsFile, Put(EmptyDict, t, 1),
                            Put(EmptyDict, t, IF is_correct THEN 1 ELSE 0))
         /\ waiting_answer' = FALSE
         /\ UNCHANGED <<mode, current_index, widgetVars, beginVars, restVars>>

\* a variant that grades whatever waiting_answer says
OnSubmitOrNextAlways ==
    /\ current_questions # <<>> => statsFile.total_answered < MaxAnswered
    /\ IF current_questions = <<>> THEN UNCHANGED vars
       ELSE HandleSubmitAnswer

\* on_submit_or_next: the submit button's clicked handler
OnSubmitOrNext ==
    /\ waiting_answer /\ current_questions # <<>>
           => statsFile.total_answered < MaxAnswered
    /\ IF current_questions = <<>> THEN UNCHANGED vars
       ELSE IF waiting_answer THEN HandleSubmitAnswer
       ELSE UNCHANGED vars

\* by_id after the loop of _finish_session over wrong_in_session.values()
RECURSIVE MergeWrongInSession(_, _)
MergeWrongInSession(by_id, ids) ==
    IF ids = <<>> THEN by_id
    ELSE MergeWrongInSession(DictPut(by_id, RoundObject(Head(ids))), Tail(ids))

\* a variant that clears the wrong-question file at the end of a round
FinishWrongFileCleared(file, m, ids) == <<>>

\* _finish_session: the wrong-question file it writes
FinishWrongFile(file, m, ids) ==
    IF m \in {"normal", "wrong"}
    THEN SaveQuestions(MergeWrongInSession(ById(LoadQuestions(file)), ids))
    ELSE file

\* _finish_session
FinishSession ==
    /\ wrongFile' = FinishWrongFile(wrongFile, mode, wrong_in_session)
    /\ everAdded' =
           IF mode \in {"normal", "wrong"}
           THEN everAdded \cup Range(wrong_in_session)
           ELSE everAdded
    /\ wrong_book_map' = RefreshWrongBookCache(wrongFile')
    /\ option_buttons' = {}
    /\ current_option_value' = <<>>
    /\ short_answer_visible' = FALSE
    /\ short_answer_text' = <<>>
    /\ mode' = "none"
    /\ current_questions' = <<>>
    /\ current_index' = -1
    /\ waiting_answer' = FALSE
    /\ UNCHANGED <<statsFile, per_type_total, per_type_correct,
                   wrong_in_session, index_status, beginVars, restVars>>

\* a variant that waits for an answer on every question it moves to
AwaitsAnswerAlways(status) == TRUE

\* waiting_answer after a move to a question of the given status
AwaitsAnswer(status) == status = "unanswered"

\* the tail shared by _goto_next_question, _goto_prev_question and
\* _goto_question_idx: move to idx after _cache_current_answer
MoveTo(idx) ==
    LET cached == CacheCurrentAnswer
    IN /\ user_answers' = cached
       /\ current_index' = idx
       /\ ShowCurrentQuestion(current_questions[idx + 1], cached[idx + 1])
       /\ waiting_answer' = AwaitsAnswer(index_status[idx + 1])
       /\ UNCHANGED <<persistVars, mode, current_questions, per_type_total,
                      per_type_correct, wrong_in_session, wrong_book_map,
                      index_status, historyVars, restVars>>

\* _show_existing_feedback: what the feedback pane shows for question idx
\* with the given cached answers
ShowExistingFeedback(answers, idx) ==
    LET q == current_questions[idx + 1]
        user_raw == IF idx < Len(answers) THEN answers[idx + 1] ELSE <<>>
    IN IF user_raw = <<>>
       THEN [shown |-> "unanswered", user_raw |-> <<>>]
       ELSE [shown |-> IF CheckAnswer(q, user_raw).is_correct
                       THEN "correct" ELSE "wrong",
             user_raw |-> user_raw]

\* _goto_next_question
GotoNextQuestion ==
    IF current_questions = <<>> THEN UNCHANGED vars
    ELSE IF current_index + 1 >= Len(current_questions)
         THEN /\ user_answers' = CacheCurrentAnswer
              /\ FinishSession
         ELSE MoveTo(current_index + 1)

\* _goto_prev_question
GotoPrevQuestion ==
    IF current_questions = <<>> \/ current_index <= 0 THEN UNCHANGED vars
    ELSE MoveTo(current_index - 1)

\* _goto_question_idx, reached from the answer card (combo box and jump button)
GotoQuestionIdx(idx) ==
    IF current_questions = <<>> \/ idx < 0 \/ idx >= Len(current_questions)
    THEN UNCHANGED vars
    ELSE MoveTo(idx)

\* on_remove_from_wrong_book; its button is visible in a wrong-only round
OnRemoveFromWrongBook ==
    /\ mode = "wrong"
    /\ current_questions # <<>>
    /\ LET q == CurrentQuestion
           was_in_book == q.id \in DOMAIN wrong_book_map
           in_book == q.id \notin Ids(wrongFile)
       IN /\ wrongFile' = ToggleWrongBookEntry(wrongFile, q)
          /\ wrong_book_map' = RefreshWrongBookCache(wrongFile')
          /\ everAdded' = IF in_book THEN everAdded \cup {q.id} ELSE everAdded
          /\ current_questions' =
                 IF was_in_book /\ ~in_book
                 THEN SetWrongCount(current_questions, q.id, 0)
                 ELSE IF in_book
                      THEN SetWrongCount(current_questions, q.id,
                                         Max(GetWrongCount(q), 1))
                      ELSE current_questions
    /\ UNCHANGED <<statsFile, mode, current_index, waiting_answer,
                   per_type_total, per_type_correct, wrong_in_session,
                   index_status, user_answers, widgetVars, beginVars,
                   restVars>>

\* the file after the toggles the user makes in the overview dialog, whose
\* rows are the questions loaded when it opened
RECURSIVE ApplyToggles(_, _, _)
ApplyToggles(file, rows, toggles) ==
    IF toggles = <<>> THEN file
    ELSE ApplyToggles(ToggleWrongBookEntry(file, rows[Head(toggles)]),
                      rows, Tail(toggles))

\* the ids the toggles put (back) into the file
RECURSIVE ToggledIn(_, _, _)
ToggledIn(file, rows, toggles) ==
    IF toggles = <<>> THEN {}
    ELSE LET q == rows[Head(toggles)]
         IN (IF q.id \in Ids(file) THEN {} ELSE {q.id})
            \cup ToggledIn(ToggleWrongBookEntry(file, q), rows, Tail(toggles))

\* on_show_wrong_overview: the modal dialog, the user's toggles in it, its close
OnShowWrongOverview(toggles) ==
    LET wrong_all == LoadQuestions(wrongFile)
    IN IF wrong_all = <<>> THEN UNCHANGED vars
       ELSE /\ wrongFile' = ApplyToggles(wrongFile, wrong_all, toggles)
            /\ everAdded' = everAdded \cup ToggledIn(wrongFile, wrong_all, toggles)
            /\ wrong_book_map' = RefreshWrongBookCache(wrongFile')
            /\ UNCHANGED <<statsFile, mode, current_questions, current_index,
                           waiting_answer, per_type_total, per_type_correct,
                           wrong_in_session, index_status, user_answers,
                           widgetVars, beginVars, restVars>>

\* ------------------------------------------------------------------------
\* quiz_engine.py: the command-line round on the same files
\* ------------------------------------------------------------------------

\* the answers a user gives to q: one of the choices on offer, or a short text
AnswerChoices(q) ==
    IF q.q_type = QTYPE_SINGLE
    THEN (IF DOMAIN q.options = {} THEN {<<"A">>, <<"B">>}
          ELSE {<<l>> : l \in DOMAIN q.options})
    ELSE IF q.q_type = QTYPE_TF THEN {<<"zheng", "que">>, <<"cuo", "wu">>}
    ELSE {<<>>, <<"x">>, <<"y">>}

\* _do_quiz_session: whether question i of the round counts as correct
\* (a short-answer question by the user's own judgement)
SessionVerdict(questions, raws, judged, i) ==
    IF questions[i].q_type = QTYPE_SHORT THEN judged[i]
    ELSE CheckAnswer(questions[i], Strip(raws[i])).is_correct

\* _do_quiz_session: per_type_total / per_type_correct after the loop
RECURSIVE Tally(_, _, _)
Tally(questions, counts, i) ==
    IF i > Len(questions) THEN EmptyDict
    ELSE LET rest == Tally(questions, counts, i + 1)
             t == questions[i].q_type
         IN IF counts[i] THEN Put(rest, t, Get(rest, t, 0) + 1) ELSE rest

\* run_normal_quiz: by_id after merging the round's wrong list
RECURSIVE MergeWrongList(_, _)
MergeWrongList(by_id, wrong_list) ==
    IF wrong_list = <<>> THEN by_id
    ELSE MergeWrongList(DictPut(by_id, Head(wrong_list)), Tail(wrong_list))

\* run_normal_quiz with the chosen type, count and answers; the one user runs
\* the command-line program while no round is open in the window
RunNormalQuiz(q_type_choice, num) ==
    LET all_questions == LoadQuestions(questionsFile)
        inPool(q) == q_type_choice = "__ALL__" \/ q.q_type = q_type_choice
        selected_pool == SelectSeq(all_questions, inPool)
    IN /\ current_questions = <<>>
       /\ all_questions # <<>>
       /\ selected_pool # <<>>
       /\ num <= Len(selected_pool)
       /\ statsFile.total_answered + num <= MaxAnswered
       /\ \E questions \in Arrangements(selected_pool, num) :
          \E raws \in [1..num -> UNION {AnswerChoices(questions[i]) : i \in 1..num}],
             judged \in [1..num -> BOOLEAN] :
            /\ \A i \in 1..num : raws[i] \in AnswerChoices(questions[i])
            /\ \A i \in 1..num : questions[i].q_type # QTYPE_SHORT => judged[i]
            /\ LET ok == [i \in 1..num |->
                             SessionVerdict(questions, raws, judged, i)]
                   isWrong(q) == \E i \in 1..num : questions[i] = q /\ ~ok[i]
                   wrong_list == SelectSeq(questions, isWrong)
               IN /\ statsFile' =
                         UpdateStats(statsFile,
                                     Tally(questions, [i \in 1..num |-> TRUE], 1),
                                     Tally(questions, ok, 1))
                  /\ wrongFile' =
                         IF wrong_list # <<>>
                         THEN SaveQuestions(
                                  MergeWrongList(ById(LoadQuestions(wrongFile)),
                                                 wrong_list))
                         ELSE wrongFile
                  /\ everAdded' = everAdded \cup Ids(wrong_list)
       /\ UNCHANGED <<sessionVars, widgetVars, beginVars, restVars>>

\* run_wrong_quiz: by_id after the loop over the round's questions, of which
\* ok tells the ones answered correctly
RECURSIVE WrongRoundById(_, _, _, _)
WrongRoundById(by_id, questions, ok, i) ==
    IF i > Len(questions) THEN by_id
    ELSE WrongRoundById(IF ok[i] THEN DictPop(by_id, questions[i].id)
                        ELSE DictPut(by_id, questions[i]),
                        questions, ok, i + 1)

\* run_wrong_quiz on the given round (the sample in its shuffled order), with
\* the answers typed and the user's own verdicts on short-answer questions
RunWrongQuizWith(questions, raws, judged) ==
    LET wrong_all == LoadQuestions(wrongFile)
        num == Len(questions)
    IN /\ current_questions = <<>>
       /\ tk_current_questions = <<>>
       /\ wrong_all # <<>>
       /\ questions \in Arrangements(wrong_all, num)
       /\ statsFile.total_answered + num <= MaxAnswered
       /\ \A i \in 1..num : raws[i] \in AnswerChoices(questions[i])
       /\ \A i \in 1..num : questions[i].q_type # QTYPE_SHORT => judged[i]
       /\ LET ok == [i \in 1..num |->
                        SessionVerdict(questions, raws, judged, i)]
          IN /\ statsFile' =
                    UpdateStats(statsFile,
                                Tally(questions, [i \in 1..num |-> TRUE], 1),
                                Tally(questions, ok, 1))
             /\ wrongFile' =
                    SaveQuestions(WrongRoundById(ById(wrong_all), questions, ok, 1))
       /\ UNCHANGED <<sessionVars, widgetVars, historyVars, restVars>>

\* the rounds of num questions run_wrong_quiz can draw, and what the user can
\* type in them
WrongRounds(num) == Arrangements(LoadQuestions(wrongFile), num)

RoundAnswers(questions) ==
    {raws \in [1..Len(questions) ->
                  UNION {AnswerChoices(questions[i]) : i \in 1..Len(questions)}] :
        \A i \in 1..Len(questions) : raws[i] \in AnswerChoices(questions[i])}

\* run_wrong_quiz with the count num, which _ask_question_count keeps within
\* 1 .. len(wrong_all)
RunWrongQuiz(num) ==
    /\ num \in 1..Len(wrongFile)
    /\ \E questions \in WrongRounds(num) :
       \E raws \in RoundAnswers(questions), judged \in [1..num -> BOOLEAN] :
           RunWrongQuizWith(questions, raws, judged)

\* ------------------------------------------------------------------------
\* gui_app.py, QuizApp: the Tkinter window
\* ------------------------------------------------------------------------

\* QuizApp.current_question during a round
TkCurrentQuestion == tk_current_questions[tk_current_index + 1]

\* the round's object with the given id
TkRoundObject(id) ==
    tk_current_questions[CHOOSE i \in 1..Len(tk_current_questions) :
                             tk_current_questions[i].id = id]

\* the values of the radio buttons _show_current_question builds for q; a
\* true/false question with two or more options shows the option texts
TkButtonsFor(q) ==
    IF q.q_type = QTYPE_SINGLE THEN {<<l>> : l \in DOMAIN q.options}
    ELSE IF q.q_type = QTYPE_TF
         THEN (IF Cardinality(DOMAIN q.options) >= 2
               THEN {<<q.options[l]>> : l \in DOMAIN q.options}
               ELSE {<<"zheng", "que">>, <<"cuo", "wu">>})
    ELSE {}

\* whether _show_current_question leaves the answer entry on display for q
TkShowsEntry(q) ==
    \/ q.q_type = QTYPE_SINGLE /\ DOMAIN q.options = {}
    \/ q.q_type \notin {QTYPE_SINGLE, QTYPE_TF}

\* QuizApp._show_current_question for q
TkShowCurrentQuestion(q) ==
    /\ options_frame' = TkButtonsFor(q)
    /\ option_var' = <<>>
    /\ answer_entry_mapped' = TkShowsEntry(q)
    /\ answer_var' = <<>>

\* id -> wrong_count read back from the wrong-question file
ReadBackCounts(file) ==
    [id \in Ids(file) |->
        GetAttrWrongCount(
            LoadQuestions(file)[CHOOSE i \in 1..Len(file) : file[i].id = id])]

\* QuizApp.begin_quiz(questions, m); questions is in its shuffled order and,
\* at both call sites, not empty
TkBeginQuiz(questions, m) ==
    /\ current_mode' = m
    /\ tk_current_questions' = questions
    /\ tk_current_index' = 0
    /\ tk_per_type_total' = EmptyDict
    /\ tk_per_type_correct' = EmptyDict
    /\ tk_wrong_in_session' = <<>>
    /\ is_waiting_answer' = TRUE
    /\ TkShowCurrentQuestion(questions[1])
    /\ tkStatus' = [i \in 1..Len(questions) |-> "unanswered"]
    /\ wrongAtBegin' = ReadBackCounts(wrongFile)
    /\ statsAtBegin' = statsFile
    /\ UNCHANGED <<questionsFile, persistVars, sessionVars, widgetVars,
                   everAdded, runVars, program>>

\* the entries of the type combo box other than "all types", and type_map
TkTypeMap ==
    [label_single |-> QTYPE_SINGLE, label_blank |-> QTYPE_BLANK,
     label_tf |-> QTYPE_TF, label_short |-> QTYPE_SHORT]

\* the entries of the type combo box
TkTypeChoices == {"all_types"} \cup DOMAIN TkTypeMap

\* on_start_normal_quiz with the type combo at qtype_choice and the count
\* spin box holding the integer n
OnStartNormalQuiz(qtype_choice, n) ==
    LET all_questions == LoadQuestions(questionsFile)
        inPool(q) == qtype_choice = "all_types" \/ q.q_type = TkTypeMap[qtype_choice]
        pool == SelectSeq(all_questions, inPool)
    IN IF all_questions = <<>> \/ pool = <<>> \/ n <= 0
       THEN UNCHANGED vars
       ELSE \E questions \in Arrangements(pool, Min(n, Len(pool))) :
                TkBeginQuiz(questions, "normal")

\* on_start_wrong_quiz with the count spin box holding the integer n
OnStartWrongQuiz(n) ==
    LET wrong_all == LoadQuestions(wrongFile)
    IN IF wrong_all = <<>> \/ n <= 0
       THEN UNCHANGED vars
       ELSE \E questions \in Arrangements(wrong_all, Min(n, Len(wrong_all))) :
                TkBeginQuiz(questions, "wrong")

\* a click on the radio button of the given value
TkSelectOption(value) ==
    /\ value \in options_frame
    /\ option_var' = value
    /\ UNCHANGED <<questionsFile, persistVars, sessionVars, widgetVars,
                   historyVars, runVars, program, current_mode,
                   tk_current_questions, tk_current_index, tk_per_type_total,
                   tk_per_type_correct, tk_wrong_in_session, is_waiting_answer,
                   answer_var, options_frame, answer_entry_mapped, tkStatus>>

\* the user edits the answer entry, which is bound to answer_var
TkTypeAnswer(text) ==
    /\ answer_entry_mapped
    /\ answer_var' = text
    /\ UNCHANGED <<questionsFile, persistVars, sessionVars, widgetVars,
                   historyVars, runVars, program, current_mode,
                   tk_current_questions, tk_current_index, tk_per_type_total,
                   tk_per_type_correct, tk_wrong_in_session, is_waiting_answer,
                   option_var, options_frame, answer_entry_mapped, tkStatus>>

\* a variant that folds the answer into the statistics file at once
TkSubmitStatsAtOnce(file, t, is_correct) ==
    UpdateStats(file, Put(EmptyDict, t, 1),
                Put(EmptyDict, t, IF is_correct THEN 1 ELSE 0))

\* QuizApp._handle_submit_answer: the statistics file it leaves; it counts
\* the answer in per_type_total and per_type_correct only
TkSubmitStats(file, t, is_correct) == file

\* QuizApp._handle_submit_answer
TkHandleSubmitAnswer ==
    LET q == TkCurrentQuestion
        choice == q.q_type \in {QTYPE_SINGLE, QTYPE_TF}
        user_raw == IF choice THEN Strip(option_var) ELSE Strip(answer_var)
        is_correct == IF q.q_type = QTYPE_SHORT THEN FALSE
                      ELSE CheckAnswer(q, user_raw).is_correct
        t == q.q_type
    IN IF choice /\ user_raw = <<>>
       THEN UNCHANGED vars
       ELSE
         /\ tk_per_type_total' =
                Put(tk_per_type_total, t, Get(tk_per_type_total, t, 0) + 1)
         /\ IF is_correct
            THEN /\ tk_per_type_correct' =
                        Put(tk_per_type_correct, t,
                            Get(tk_per_type_correct, t, 0) + 1)
                 /\ UNCHANGED tk_wrong_in_session
            ELSE /\ UNCHANGED tk_per_type_correct
                 /\ tk_wrong_in_session' =
                        IF q.id \in Range(tk_wrong_in_session)
                        THEN tk_wrong_in_session
                        ELSE Append(tk_wrong_in_session, q.id)
         /\ is_waiting_answer' = FALSE
         /\ tkStatus' = [tkStatus EXCEPT ![tk_current_index + 1] =
                            IF is_correct THEN "correct" ELSE "wrong"]
         /\ statsFile' = TkSubmitStats(statsFile, t, is_correct)
         /\ UNCHANGED <<questionsFile, wrongFile, sessionVars, widgetVars,
                        historyVars, runVars, program, current_mode,
                        tk_current_questions, tk_current_index, option_var,
                        answer_var, options_frame, answer_entry_mapped>>

\* a variant that pops nothing
RECURSIVE TkPopNone(_, _)
TkPopNone(by_id, ids) == by_id

\* by_id after QuizApp._finish_session has popped the given ids
RECURSIVE TkPopAll(_, _)
TkPopAll(by_id, ids) ==
    IF ids = {} THEN by_id
    ELSE LET id == CHOOSE x \in ids : TRUE
         IN TkPopAll(DictPop(by_id, id), ids \ {id})

\* by_id after the loop of QuizApp._finish_session over wrong_in_session
RECURSIVE TkMergeWrongInSession(_, _)
TkMergeWrongInSession(by_id, ids) ==
    IF ids = <<>> THEN by_id
    ELSE TkMergeWrongInSession(DictPut(by_id, TkRoundObject(Head(ids))),
                               Tail(ids))

\* QuizApp._finish_session: the wrong-question file it leaves
TkFinishWrongFile(file, m, ids) ==
    IF m = "normal"
    THEN (IF ids # <<>>
          THEN SaveQuestions(
                   TkMergeWrongInSession(ById(LoadQuestions(file)), ids))
          ELSE file)
    ELSE IF m = "wrong"
    THEN LET original_ids == Ids(tk_current_questions)
             correct_ids_this_round == original_ids \ Range(ids)
         IN SaveQuestions(
                TkMergeWrongInSession(
                    TkPopAll(ById(LoadQuestions(file)), correct_ids_this_round),
                    ids))
    ELSE file

\* a variant that folds in no statistics at the end of the round
TkFinishStatsNotFolded(file) == file

\* QuizApp._finish_session: the statistics file it leaves
TkFinishStats(file) == UpdateStats(file, tk_per_type_total, tk_per_type_correct)

\* QuizApp._finish_session
TkFinishSession ==
    /\ statsFile' = TkFinishStats(statsFile)
    /\ wrongFile' = TkFinishWrongFile(wrongFile, current_mode, tk_wrong_in_session)
    /\ everAdded' =
           IF current_mode \in {"normal", "wrong"}
           THEN everAdded \cup Range(tk_wrong_in_session)
           ELSE everAdded
    /\ current_mode' = "none"
    /\ tk_current_questions' = <<>>
    /\ tk_current_index' = -1
    /\ is_waiting_answer' = FALSE
    /\ options_frame' = {}
    /\ answer_var' = <<>>
    /\ option_var' = <<>>
    /\ UNCHANGED <<questionsFile, sessionVars, widgetVars, beginVars, runVars,
                   program, tk_per_type_total, tk_per_type_correct,
                   tk_wrong_in_session, answer_entry_mapped, tkStatus>>

\* QuizApp._goto_next_question
TkGotoNextQuestion ==
    IF tk_current_index + 1 < Len(tk_current_questions)
    THEN /\ tk_current_index' = tk_current_index + 1
         /\ is_waiting_answer' = TRUE
         /\ TkShowCurrentQuestion(tk_current_questions[tk_current_index + 2])
         /\ UNCHANGED <<questionsFile, persistVars, sessionVars, widgetVars,
                        historyVars, runVars, program, current_mode,
                        tk_current_questions, tk_per_type_total,
                        tk_per_type_correct, tk_wrong_in_session, tkStatus>>
    ELSE TkFinishSession

\* a variant that moves on without collecting and grading the answer
TkOnSubmitOrNextSkips ==
    /\ is_waiting_answer /\ tk_current_questions # <<>>
           => statsFile.total_answered + SumValues(tk_per_type_total) < MaxAnswered
    /\ IF tk_current_questions = <<>> THEN UNCHANGED vars
       ELSE TkGotoNextQuestion

\* QuizApp.on_submit_or_next: the command of the submit button
TkOnSubmitOrNext ==
    /\ is_waiting_answer /\ tk_current_questions # <<>>
           => statsFile.total_answered + SumValues(tk_per_type_total) < MaxAnswered
    /\ IF tk_current_questions = <<>> THEN UNCHANGED vars
       ELSE IF is_waiting_answer THEN TkHandleSubmitAnswer
       ELSE TkGotoNextQuestion

\* ------------------------------------------------------------------------
\* question_parser.py
\*
\* More characters: "dun" is the ideographic comma U+3001, "fw_dot" U+FF0E,
\* "fw_comma" U+FF0C, "fw_colon" U+FF1A; "cn1".."cn10" are the numerals
\* U+4E00 .. U+5341; "dan" "xuan" "ze" "tian" "kong" "pan" "duan" "jian"
\* "da" "wen" "an" are the characters of the section words and of the answer
\* marker; "cuo_trad" is U+932F, "check" U+221A and "cross" U+00D7.
\* ------------------------------------------------------------------------

\* the length of the longest prefix of s made of characters of the set
RECURSIVE PrefixLen(_, _)
PrefixLen(s, set) ==
    IF s # <<>> /\ Head(s) \in set THEN 1 + PrefixLen(Tail(s), set) ELSE 0

\* s[n:]
Rest(s, n) == SubSeq(s, n + 1, Len(s))

\* what (.*) matches at the start of s: up to the first line break
UpToNewline(s) ==
    SubSeq(s, 1, PrefixLen(s, Range(s) \ {"NL"}))

\* int() of a run of digits
RECURSIVE IntOf(_)
IntOf(ds) ==
    IF ds = <<>> THEN 0
    ELSE 10 * IntOf(SubSeq(ds, 1, Len(ds) - 1))
         + (CHOOSE v \in 0..2 : ds[Len(ds)] = <<"0", "1", "2">>[v + 1])

\* a match of ^(lead+)[seps]\s*(.*) on text: <<>> for none, else <<groups>>
NumberedMatch(text, lead, seps) ==
    LET n == PrefixLen(text, lead)
    IN IF n >= 1 /\ Len(text) > n /\ text[n + 1] \in seps
       THEN <<[head |-> SubSeq(text, 1, n),
               body |-> UpToNewline(LStrip(Rest(text, n + 1)))]>>
       ELSE <<>>

NumberSeparators == {"dun", ".", "fw_dot"}

\* QUESTION_START_RE.match(text)
QuestionStartMatch(text) == NumberedMatch(text, {"0", "1", "2"}, NumberSeparators)

\* SECTION_RE.match(text)
SectionMatch(text) ==
    NumberedMatch(text,
                  {"cn1", "cn2", "cn3", "cn4", "cn5", "cn6", "cn7", "cn8",
                   "cn9", "cn10"},
                  NumberSeparators)

\* OPTION_RE.match(text), the label passed through CN_OPTION_MAP
OptionMatch(text) ==
    LET half == <<"A", "B", "C", "D">>
        full == <<"FW_A", "FW_B", "FW_C", "FW_D">>
    IN IF /\ Len(text) >= 2
          /\ text[1] \in Range(half) \cup Range(full)
          /\ text[2] \in NumberSeparators \cup {",", "fw_comma"}
       THEN <<[label |-> IF text[1] \in Range(full)
                         THEN half[IndexIn(full, text[1])] ELSE text[1],
               content |-> Strip(UpToNewline(LStrip(Rest(text, 2))))]>>
       ELSE <<>>

\* sub in s
Contains(s, sub) ==
    \E i \in 0..(Len(s) - Len(sub)) : SubSeq(s, i + 1, i + Len(sub)) = sub

\* _detect_qtype_from_section ("" for None)
DetectQtypeFromSection(t) ==
    IF Contains(t, <<"dan", "xuan">>) \/ Contains(t, <<"xuan", "ze">>)
    THEN QTYPE_SINGLE
    ELSE IF Contains(t, <<"tian", "kong">>) THEN QTYPE_BLANK
    ELSE IF Contains(t, <<"pan", "duan">>) THEN QTYPE_TF
    ELSE IF Contains(t, <<"jian", "da">>) \/ Contains(t, <<"wen", "da">>)
    THEN QTYPE_SHORT
    ELSE ""

\* the prefix that opens a question's answer
AnswerMarker == <<"zheng", "que", "da", "an">>

\* text.startswith("...")
StartsWith(text, prefix) ==
    Len(text) >= Len(prefix) /\ SubSeq(text, 1, Len(prefix)) = prefix

\* text.split(sep, 1): <<>> when sep is not in text, else <<what follows it>>
SplitAfter(text, sep) ==
    IF sep \in Range(text)
    THEN <<Rest(text, PrefixLen(text, Range(text) \ {sep}) + 1)>>
    ELSE <<>>

\* the answer a marker line carries
MarkerAnswer(text) ==
    LET part == IF SplitAfter(text, "fw_colon") # <<>>
                THEN SplitAfter(text, "fw_colon")
                ELSE SplitAfter(text, ":")
    IN IF part = <<>> THEN <<>> ELSE Strip(part[1])

\* a variant that takes option lines in every state
OptionStatesAll == {"question", "options", "answer"}

\* the states in which a line of option shape is an option
OptionStates == {"question", "options"}

\* questions_raw with current, if there is one, appended
Closed(raws, cur) == IF cur = <<>> THEN raws ELSE Append(raws, cur[1])

\* _parse_document: one turn of the loop over the paragraphs
ParseParagraph ==
    /\ file_state.kind = "docx"
    /\ para_index < Len(paragraphs)
    /\ para_index' = para_index + 1
    /\ LET text == Strip(paragraphs[para_index + 1])
           m_sec == SectionMatch(text)
           m_q == QuestionStartMatch(text)
           m_opt == OptionMatch(text)
       IN IF text = <<>>
          THEN UNCHANGED <<current, state, current_section_type, questions_raw>>
          ELSE IF m_sec # <<>>
          THEN /\ current_section_type' =
                      IF DetectQtypeFromSection(m_sec[1].body) # ""
                      THEN DetectQtypeFromSection(m_sec[1].body)
                      ELSE current_section_type
               /\ UNCHANGED <<current, state, questions_raw>>
          ELSE IF m_q # <<>>
          THEN /\ questions_raw' = Closed(questions_raw, current)
               /\ current' =
                      <<[number |-> IntOf(m_q[1].head),
                         q_type |-> current_section_type,
                         text_lines |->
                             IF Strip(m_q[1].body) # <<>>
                             THEN <<Strip(m_q[1].body)>> ELSE <<>>,
                         options |-> <<>>,
                         answer_lines |-> <<>>]>>
               /\ state' = "question"
               /\ UNCHANGED current_section_type
          ELSE IF current = <<>>
          THEN UNCHANGED <<current, state, current_section_type, questions_raw>>
          ELSE IF StartsWith(text, AnswerMarker)
          THEN /\ current' =
                      IF MarkerAnswer(text) # <<>>
                      THEN <<[current[1] EXCEPT !.answer_lines =
                                 Append(@, MarkerAnswer(text))]>>
                      ELSE current
               /\ state' = "answer"
               /\ UNCHANGED <<current_section_type, questions_raw>>
          ELSE IF m_opt # <<>> /\ state \in OptionStates
          THEN /\ current' =
                      <<[current[1] EXCEPT !.options =
                            Put(@, m_opt[1].label, m_opt[1].content)]>>
               /\ state' = "options"
               /\ UNCHANGED <<current_section_type, questions_raw>>
          ELSE IF state = "answer"
          THEN /\ current' =
                      <<[current[1] EXCEPT !.answer_lines = Append(@, text)]>>
               /\ UNCHANGED <<state, current_section_type, questions_raw>>
          ELSE /\ current' =
                      <<[current[1] EXCEPT !.text_lines = Append(@, text)]>>
               /\ UNCHANGED <<state, current_section_type, questions_raw>>
    /\ UNCHANGED <<questionsFile, persistVars, sessionVars, widgetVars,
                   historyVars, gradeVars, loadVars, program, tkVars,
                   paragraphs, parsed_questions>>

\* sep.join(lines)
RECURSIVE Join(_, _)
Join(lines, sep) ==
    IF lines = <<>> THEN <<>>
    ELSE IF Len(lines) = 1 THEN lines[1]
    ELSE lines[1] \o sep \o Join(Tail(lines), sep)

\* a variant that knows no true/false answers
GuessTfSetEmpty == {}

\* the answers _guess_qtype_for_raw takes for true/false answers
GuessTfSet ==
    { <<"dui">>, <<"cuo_trad">>, <<"cuo">>, <<"zheng", "que">>, <<"cuo", "wu">>,
      <<"check">>, <<"cross">>, <<"T">>, <<"F">>, <<"T", "R", "U", "E">>,
      <<"F", "A", "L", "S", "E">> }

\* the longest answer _guess_qtype_for_raw takes for a fill-in answer
ShortAnswerLimit == 20

\* _guess_qtype_for_raw
GuessQtypeForRaw(raw) ==
    LET ans_join == Strip(Join(raw.answer_lines, <<>>))
        ans_norm == Upper(RemoveChar(ans_join, " "))
    IN IF raw.q_type # "" THEN raw.q_type
       ELSE IF DOMAIN raw.options # {} THEN QTYPE_SINGLE
       ELSE IF ans_norm \in GuessTfSet THEN QTYPE_TF
       ELSE IF Len(ans_norm) <= ShortAnswerLimit /\ "NL" \notin Range(ans_join)
       THEN QTYPE_BLANK
       ELSE QTYPE_SHORT

\* _build_questions: the Question built from one raw dict
BuildQuestion(raw) ==
    LET qtype == GuessQtypeForRaw(raw)
    IN [id |-> raw.number, q_type |-> qtype, options |-> raw.options,
        answer |-> IF qtype \in {QTYPE_SINGLE, QTYPE_TF}
                   THEN Strip(Join(raw.answer_lines, <<>>))
                   ELSE Strip(Join(raw.answer_lines, <<"NL">>)),
        wrong_count |-> <<>>]

\* a variant that leaves the list in document order
InsertByIdAtEnd(sorted, q) == Append(sorted, q)

\* q put into a list sorted by id, behind the entries with its id
InsertById(sorted, q) ==
    LET n == Cardinality({i \in 1..Len(sorted) : sorted[i].id <= q.id})
    IN SubSeq(sorted, 1, n) \o <<q>> \o Rest(sorted, n)

\* list.sort(key = id): stable
RECURSIVE SortById(_)
SortById(list) ==
    IF list = <<>> THEN <<>>
    ELSE InsertById(SortById(SubSeq(list, 1, Len(list) - 1)), list[Len(list)])

\* parse_docx_and_save_to_json after the loop: the last question is closed,
\* the Question list is built, sorted and written as the question bank
BuildQuestions ==
    /\ file_state.kind = "docx"
    /\ para_index = Len(paragraphs)
    /\ parsed_questions = <<>>
    /\ LET raw_list == Closed(questions_raw, current)
           built == [i \in 1..Len(raw_list) |-> BuildQuestion(raw_list[i])]
       IN /\ questions_raw' = raw_list
          /\ parsed_questions' = <<SortById(built)>>
          /\ questionsFile' = SaveQuestions(SortById(built))
    /\ UNCHANGED <<persistVars, sessionVars, widgetVars, historyVars, gradeVars,
                   loadVars, program, tkVars, paragraphs, para_index, current,
                   state, current_section_type>>

\* ------------------------------------------------------------------------
\* The quiz window: specification
\* ------------------------------------------------------------------------

\* what the user types into the text box
TypedTexts == {<<>>, <<"x">>, <<"y">>}

\* the sequences of row numbers the user toggles in one overview dialog
ToggleRuns(rows) == UNION {[1..k -> 1..rows] : k \in 0..MaxToggles}

GradeIdle ==
    /\ g_question = [q_type |-> QTYPE_UNKNOWN, answer |-> <<>>]
    /\ g_user_raw = <<>>
    /\ g_result = <<>>

\* no document is being parsed
ParseIdle ==
    /\ paragraphs = <<>>
    /\ para_index = 0
    /\ current = <<>>
    /\ state = "none"
    /\ current_section_type = ""
    /\ questions_raw = <<>>
    /\ parsed_questions = <<>>

\* no file is being loaded
LoadIdle ==
    /\ file_state = [kind |-> "missing", items |-> <<>>, fields |-> <<>>]
    /\ load_result = <<>>

\* QuizWindow.__init__ on a fresh installation: no wrong-question file, and
\* load_stats writes the default statistics
WindowInit ==
    /\ wrongFile = <<>>
    /\ statsFile = DefaultStats
    /\ mode = "none"
    /\ current_questions = <<>>
    /\ current_index = -1
    /\ waiting_answer = FALSE
    /\ per_type_total = EmptyDict
    /\ per_type_correct = EmptyDict
    /\ wrong_in_session = <<>>
    /\ wrong_book_map = RefreshWrongBookCache(<<>>)
    /\ index_status = <<>>
    /\ user_answers = <<>>
    /\ current_option_value = <<>>
    /\ option_buttons = {}
    /\ short_answer_text = <<>>
    /\ short_answer_visible = FALSE
    /\ wrongAtBegin = EmptyDict
    /\ statsAtBegin = DefaultStats
    /\ everAdded = {}

\* QuizApp.__init__
AppInit ==
    /\ current_mode = "none"
    /\ tk_current_questions = <<>>
    /\ tk_current_index = -1
    /\ tk_per_type_total = EmptyDict
    /\ tk_per_type_correct = EmptyDict
    /\ tk_wrong_in_session = <<>>
    /\ is_waiting_answer = FALSE
    /\ option_var = <<>>
    /\ answer_var = <<>>
    /\ options_frame = {}
    /\ answer_entry_mapped = TRUE
    /\ tkStatus = <<>>

\* the question bank the installation holds
BankInit == questionsFile \in Banks

\* a fresh installation before either window has been used
Installed == BankInit /\ WindowInit /\ AppInit /\ GradeIdle /\ ParseIdle /\ LoadIdle

Init == Installed /\ program = "qt_app"

Next ==
    \/ \E qtype_data \in QTypes \cup {"all"}, n \in 1..MaxCount :
           OnStartNormal(qtype_data, n)
    \/ \E n \in 1..MaxCount : OnStartWrong(n)
    \/ \E value \in option_buttons : SelectOption(value)
    \/ \E text \in TypedTexts : TypeAnswer(text)
    \/ OnSubmitOrNext
    \/ GotoNextQuestion
    \/ GotoPrevQuestion
    \/ \E idx \in 0..(Len(current_questions) - 1) : GotoQuestionIdx(idx)
    \/ OnRemoveFromWrongBook
    \/ \E toggles \in ToggleRuns(Len(wrongFile)) : OnShowWrongOverview(toggles)

Spec == Init /\ [][Next]_vars

\* the window and the command-line program, used one after the other by the
\* one user on the same files
NextFiles ==
    \/ Next
    \/ \E q_type_choice \in QTypes \cup {"__ALL__"}, num \in 1..MaxCount :
           RunNormalQuiz(q_type_choice, num)

SpecFiles == Init /\ [][NextFiles]_vars

\* ------------------------------------------------------------------------
\* The Tkinter window: specification
\* ------------------------------------------------------------------------

\* what the user types into the answer entry
TkTypedTexts == {<<>>, <<"x">>, <<" ">>}

InitTk == Installed /\ program = "gui_app"

NextTk ==
    \/ \E qtype_choice \in TkTypeChoices, n \in 0..MaxCount :
           OnStartNormalQuiz(qtype_choice, n)
    \/ \E n \in 0..MaxCount : OnStartWrongQuiz(n)
    \/ \E value \in options_frame : TkSelectOption(value)
    \/ \E text \in TkTypedTexts : TkTypeAnswer(text)
    \/ TkOnSubmitOrNext

SpecTk == InitTk /\ [][NextTk]_vars

\* the installation is used through one of the two windows
InitWindows == Installed /\ program \in {"qt_app", "gui_app"}

NextWindows ==
    \/ program = "qt_app" /\ Next
    \/ program = "gui_app" /\ NextTk

SpecWindows == InitWindows /\ [][NextWindows]_vars

\* ------------------------------------------------------------------------
\* Wrong-question practice in the Tkinter window and on the command line
\* ------------------------------------------------------------------------

\* an installation whose statistics were reset and whose wrong-question file
\* is empty or holds every question of the bank
InitPractice ==
    /\ BankInit /\ AppInit /\ GradeIdle /\ ParseIdle /\ LoadIdle
    /\ program = "gui_app"
    /\ wrongFile \in {<<>>, questionsFile}
    /\ statsFile = DefaultStats
    /\ mode = "none"
    /\ current_questions = <<>>
    /\ current_index = -1
    /\ waiting_answer = FALSE
    /\ per_type_total = EmptyDict
    /\ per_type_correct = EmptyDict
    /\ wrong_in_session = <<>>
    /\ wrong_book_map = RefreshWrongBookCache(wrongFile)
    /\ index_status = <<>>
    /\ user_answers = <<>>
    /\ current_option_value = <<>>
    /\ option_buttons = {}
    /\ short_answer_text = <<>>
    /\ short_answer_visible = FALSE
    /\ wrongAtBegin = EmptyDict
    /\ statsAtBegin = DefaultStats
    /\ everAdded = Ids(wrongFile)

NextPractice ==
    \/ NextTk
    \/ \E num \in 1..MaxCount : RunWrongQuiz(num)

SpecPractice == InitPractice /\ [][NextPractice]_vars

\* ------------------------------------------------------------------------
\* Grading runs: _check_answer applied to bounded inputs
\* ------------------------------------------------------------------------

\* all strings of at most n characters of the set chars
Strings(chars, n) == UNION {[1..k -> chars] : k \in 0..n}

\* all concatenations of at most n of the given pieces
RECURSIVE Concats(_, _)
Concats(pieces, n) ==
    IF n = 0 THEN {<<>>}
    ELSE LET shorter == Concats(pieces, n - 1)
         IN shorter \cup {s \o p : s \in shorter, p \in pieces}

\* characters of single-choice answers: letters in and out of A-H, in both
\* cases and widths, and a separator
SingleChars == {"A", "b", "FW_B", "fw_a", "H", "I", " "}

\* reference answers of true/false questions: the vocabulary as the bank may
\* spell it, and answers outside it
TfReferences ==
    TrueWords \cup FalseWords
    \cup { <<"t", "r", "u", "e">>, <<"F", "a", "l", "s", "e">>, <<"y", "e", "s">>,
           <<" ", "zheng", "que", "juhao">>, <<"cuo", " ", "wu">>,
           <<"TAB", "f", "NL">>, <<>>, <<"X">>, <<"juhao">>, <<"zheng">>,
           <<"FW_T">>, <<"dui", "dui">>, <<"m", "a", "y", "b", "e">>,
           <<"T", "TAB", "R", "U", "E">> }

\* pieces of true/false user answers
TfPieces ==
    { <<"dui">>, <<"cuo">>, <<"zheng", "que">>, <<"cuo", "wu">>, <<"t">>,
      <<"F">>, <<"t", "r", "u", "e">>, <<"N", "o">>, <<"1">>, <<"0">>,
      <<" ">>, <<"juhao">>, <<"X">> }

\* characters of fill-in and short answers
TextChars == {"x", "y", " ", "TAB"}

GradeInputs ==
    [single |-> Strings(SingleChars, MaxLen),
     tf_answer |-> TfReferences,
     tf_raw |-> Concats(TfPieces, MaxLen) \cup TfReferences,
     text |-> Strings(TextChars, MaxLen)]

InitGrade ==
    /\ questionsFile = Bank
    /\ WindowInit
    /\ AppInit
    /\ ParseIdle
    /\ LoadIdle
    /\ program = "qt_app"
    /\ g_result = <<>>
    /\ \/ /\ g_question \in [q_type : {QTYPE_SINGLE}, answer : GradeInputs.single]
          /\ g_user_raw \in GradeInputs.single
       \/ /\ g_question \in [q_type : {QTYPE_TF}, answer : GradeInputs.tf_answer]
          /\ g_user_raw \in GradeInputs.tf_raw
       \/ /\ g_question \in [q_type : {QTYPE_BLANK, QTYPE_SHORT, QTYPE_UNKNOWN},
                               answer : GradeInputs.text]
          /\ g_user_raw \in GradeInputs.text

\* one call _check_answer(g_question, g_user_raw)
Grade ==
    /\ g_result = <<>>
    /\ g_result' = <<CheckAnswer(g_question, g_user_raw)>>
    /\ UNCHANGED <<questionsFile, persistVars, sessionVars, widgetVars,
                   historyVars, g_question, g_user_raw, parseVars, loadVars,
                   program, tkVars>>

NextGrade == Grade

SpecGrade == InitGrade /\ [][NextGrade]_vars

\* ------------------------------------------------------------------------
\* Properties of grading (checked under SpecGrade)
\* ------------------------------------------------------------------------

Graded == g_result # <<>>

Result == g_result[1]

\* the letters A-H (as 1..8) that occur in s in either case and either width
LetterSetOf(s) ==
    {i \in 1..8 : \E k \in 1..Len(s) :
        s[k] \in {HalfUpper[i], HalfLower[i], FullUpper[i], FullLower[i]}}

\* the half-width capitals of a set of letters, ascending
Ascending(S) ==
    LET member(c) == \E i \in S : HalfUpper[i] = c
    IN SelectSeq(SubSeq(HalfUpper, 1, 8), member)

InTfVocabulary(s) == Upper(s) \in TrueWords \cup FalseWords

\* C2: grading a question against its own reference answer is correct for a
\* single-choice question whose reference holds a letter A-H and for a
\* true/false question whose reference is in the vocabulary, and is false for
\* every short-answer question.
C2_Reflexivity ==
    (Graded /\ g_user_raw = g_question.answer) =>
        /\ (g_question.q_type = QTYPE_SINGLE /\ LetterSetOf(g_question.answer) # {})
               => Result.is_correct
        /\ (g_question.q_type = QTYPE_TF /\ InTfVocabulary(g_question.answer))
               => Result.is_correct
        /\ g_question.q_type = QTYPE_SHORT => ~Result.is_correct

\* a true/false question graded correct against its own lower-case reference
C2_Witness ==
    /\ Graded
    /\ g_question.q_type = QTYPE_TF
    /\ g_question.answer = <<"t", "r", "u", "e">>
    /\ g_user_raw = g_question.answer
    /\ Result.is_correct

\* the token a true/false answer maps to: ends trimmed, spaces and ideographic
\* full stops dropped, upper-cased, then looked up in the vocabulary
TfTokenOf(s) ==
    LET t == Upper(RemoveChar(RemoveChar(Strip(s), "juhao"), " "))
    IN IF t \in TrueWords THEN "T"
       ELSE IF t \in FalseWords THEN "F"
       ELSE "none"

\* C3: on a true/false question is_correct holds exactly when the user answer
\* and the reference each map to T or F and to the same one; a reference that
\* maps to neither gives false for every user answer, the identical one
\* included.
C3_TrueFalseByToken ==
    (Graded /\ g_question.q_type = QTYPE_TF) =>
        /\ Result.is_correct =
              (/\ TfTokenOf(g_user_raw) \in {"T", "F"}
               /\ TfTokenOf(g_question.answer) \in {"T", "F"}
               /\ TfTokenOf(g_user_raw) = TfTokenOf(g_question.answer))
        /\ TfTokenOf(g_question.answer) = "none" => ~Result.is_correct

\* a non-vocabulary reference answered with the very same string, graded false
C3_Witness ==
    /\ Graded
    /\ g_question.q_type = QTYPE_TF
    /\ g_question.answer = <<"m", "a", "y", "b", "e">>
    /\ g_user_raw = g_question.answer
    /\ ~Result.is_correct

\* the words of s: its maximal runs of characters that are not white space
RECURSIVE WordsOf(_)
WordsOf(s) ==
    IF s = <<>> THEN <<>>
    ELSE IF Head(s) \in WhiteSpace THEN WordsOf(Tail(s))
    ELSE LET n == CHOOSE k \in 1..Len(s) :
                    /\ \A j \in 1..k : s[j] \notin WhiteSpace
                    /\ k = Len(s) \/ s[k + 1] \in WhiteSpace
         IN <<SubSeq(s, 1, n)>> \o WordsOf(SubSeq(s, n + 1, Len(s)))

\* the words joined by single spaces
RECURSIVE JoinWords(_)
JoinWords(ws) ==
    IF ws = <<>> THEN <<>>
    ELSE IF Len(ws) = 1 THEN ws[1]
    ELSE ws[1] \o <<" ">> \o JoinWords(Tail(ws))

IsString(s) == DOMAIN s = 1..Len(s)

RoundOpen == current_questions # <<>>

\* this step grades question i of the round
GradesNow(i) ==
    /\ i \in DOMAIN index_status /\ i \in DOMAIN index_status'
    /\ index_status[i] = "unanswered"
    /\ index_status'[i] # "unanswered"

\* C6: right after an incorrect submission the question is in the in-session
\* wrong-set and its id is in the persisted wrong-question list; a correct
\* submission adds nothing to either.
C6_SubmitRecordsWrong ==
    [][\A i \in DOMAIN index_status :
          GradesNow(i) =>
            LET q == current_questions[i]
            IN /\ index_status'[i] = "wrong" =>
                     /\ q.id \in Range(wrong_in_session')
                     /\ q.id \in Ids(wrongFile')
               /\ index_status'[i] = "correct" =>
                     /\ wrong_in_session' = wrong_in_session
                     /\ wrongFile' = wrongFile]_vars

\* the current question was just answered incorrectly and is in both sets
C6_Witness ==
    /\ RoundOpen
    /\ ~waiting_answer
    /\ index_status[current_index + 1] = "wrong"
    /\ wrong_in_session = <<CurrentQuestion.id>>
    /\ wrongFile = <<ToDict(CurrentQuestion)>>

\* this step is _finish_session: the round closes and its statuses stay
FinishStep ==
    /\ RoundOpen
    /\ current_questions' = <<>>
    /\ index_status' = index_status

\* wrong_count of the given id as load_wrong_questions reads it back
ReadBackWrongCount(file, id) ==
    GetAttrWrongCount(
        LoadQuestions(file)[CHOOSE i \in 1..Len(file) : file[i].id = id])

\* C7: a question of a wrong-only round that was in the persisted list when
\* the round began and was answered correctly is absent from the persisted
\* list after _finish_session.
C7_CorrectLeavesWrongBook ==
    [][(FinishStep /\ mode = "wrong") =>
          \A i \in DOMAIN index_status :
             (/\ index_status[i] = "correct"
              /\ current_questions[i].id \in DOMAIN wrongAtBegin)
                 => current_questions[i].id \notin Ids(wrongFile')]_vars

\* C8: a question already in the persisted list that is answered incorrectly
\* in a wrong-only round is still in the list after finish, with a wrong_count
\* read back at least 1 greater than the one read back before the round.
C8_WrongCountGrows ==
    [][(FinishStep /\ mode = "wrong") =>
          \A i \in DOMAIN index_status :
             (/\ index_status[i] = "wrong"
              /\ current_questions[i].id \in DOMAIN wrongAtBegin)
                 => /\ current_questions[i].id \in Ids(wrongFile')
                    /\ ReadBackWrongCount(wrongFile', current_questions[i].id)
                          >= wrongAtBegin[current_questions[i].id] + 1]_vars

NoDuplicateIds(list) ==
    \A i, j \in 1..Len(list) : list[i].id = list[j].id => i = j

\* C9: the persisted wrong-question list never holds two entries with the
\* same id, and it is never longer than the number of distinct ids ever added.
C9_WrongBookDeduplicated ==
    /\ NoDuplicateIds(wrongFile)
    /\ Len(wrongFile) <= Cardinality(everAdded)

\* a question that was in the list when the wrong-only round began has just
\* been answered incorrectly, that is added again, and the list holds it once
C9_Witness ==
    /\ mode = "wrong"
    /\ ~waiting_answer
    /\ index_status[current_index + 1] = "wrong"
    /\ CurrentQuestion.id \in DOMAIN wrongAtBegin
    /\ CurrentQuestion.id \in DOMAIN wrong_book_map
    /\ wrong_book_map[CurrentQuestion.id] = "session"
    /\ wrongFile = <<ToDict(CurrentQuestion)>>
    /\ everAdded = {CurrentQuestion.id}

\* a step of submit, next, previous or an answer-card jump
SubmitOrNavigate ==
    \/ OnSubmitOrNext
    \/ GotoNextQuestion
    \/ GotoPrevQuestion
    \/ \E idx \in 0..(Len(current_questions) - 1) : GotoQuestionIdx(idx)

\* C10: submit, previous, next and answer-card jumps leave the status of every
\* graded question as it is; the tallies and the persisted statistics change
\* only in a step that grades the current, until then unanswered, question,
\* and then by one answer.
C10_GradedOnce ==
    [][SubmitOrNavigate =>
          /\ \A i \in DOMAIN index_status :
                index_status[i] # "unanswered" =>
                    /\ i \in DOMAIN index_status'
                    /\ index_status'[i] = index_status[i]
          /\ (\/ per_type_total' # per_type_total
              \/ per_type_correct' # per_type_correct
              \/ statsFile' # statsFile) =>
                /\ waiting_answer
                /\ GradesNow(current_index + 1)
                /\ \A i \in DOMAIN index_status :
                      i # current_index + 1 => index_status'[i] = index_status[i]
                /\ SumValues(per_type_total') = SumValues(per_type_total) + 1
                /\ statsFile'.total_answered = statsFile.total_answered + 1]_vars

\* both questions of a round are graded and the user is back on the first
C10_Witness ==
    /\ RoundOpen
    /\ current_index = 0
    /\ ~waiting_answer
    /\ index_status = <<"correct", "wrong">>
    /\ SumValues(per_type_total) = 2

\* ------------------------------------------------------------------------
\* storage.py and qt_app.py: loading a file in whatever state it is
\*
\* A file is [kind, items, fields]: kind is "missing", "invalid" (not JSON) or
\* the top-level shape of the JSON value; items are the elements of an array,
\* fields the entries of an object. An element is [kind, val]: val holds the
\* number itself, or the "id" entry of an object when it has one.
\* ------------------------------------------------------------------------

\* the longest array in a file
MaxItems == 2

JsonItems ==
    { [kind |-> "number", val |-> <<1>>], [kind |-> "string", val |-> <<>>],
      [kind |-> "object", val |-> <<1>>], [kind |-> "object", val |-> <<>>] }

\* the states of a file
FileStates ==
    [kind : {"missing", "invalid", "number", "string", "null"},
     items : {<<>>}, fields : {EmptyDict}]
    \cup [kind : {"array"},
          items : UNION {[1..k -> JsonItems] : k \in 0..MaxItems},
          fields : {EmptyDict}]
    \cup [kind : {"object"}, items : {<<>>},
          fields : {EmptyDict, [total_answered |-> 1]}]

\* _read_json(path, default): the file's value, the default (as a file of the
\* default's shape) when the file is missing or is not JSON
ReadJson(file, default) ==
    IF file.kind \in {"missing", "invalid"} THEN default ELSE file

\* the value [] as a file
EmptyArray == [kind |-> "array", items |-> <<>>, fields |-> EmptyDict]

\* the value None as a file
NoneValue == [kind |-> "null", items |-> <<>>, fields |-> EmptyDict]

\* a result: what a loader returned, or that it raised
Returned(loader, v) == <<[loader |-> loader, raised |-> FALSE, value |-> v]>>

Raised(loader) == <<[loader |-> loader, raised |-> TRUE, value |-> <<>>]>>

\* Question.from_dict on an object of the array: absent keys take defaults
FromDictDefaults(item) ==
    [id |-> IF item.val = <<>> THEN 0 ELSE item.val[1], q_type |-> QTYPE_UNKNOWN,
     answer |-> <<>>, options |-> <<>>, wrong_count |-> <<>>]

\* load_questions_from_file / load_wrong_questions: "for item in data" raises
\* on a number or null; the keys of an object, the characters of a string and
\* the elements of an array that are no objects fail in from_dict, are caught
\* and skipped
LoadList(loader) ==
    /\ loader \in {"load_questions_from_file", "load_wrong_questions"}
    /\ LET data == ReadJson(file_state, EmptyArray)
           isObject(item) == item.kind = "object"
           good == SelectSeq(data.items, isObject)
       IN load_result' =
              IF data.kind \in {"number", "null"} THEN Raised(loader)
              ELSE Returned(loader,
                            [i \in 1..Len(good) |-> FromDictDefaults(good[i])])
    /\ UNCHANGED <<questionsFile, persistVars, sessionVars, widgetVars,
                   historyVars, gradeVars, parseVars, program, tkVars,
                   file_state>>

\* load_stats: anything but an object is replaced by the defaults, which are
\* written to the file
LoadStatsFile ==
    /\ LET stats == ReadJson(file_state, NoneValue)
       IN IF stats.kind # "object"
          THEN /\ file_state' = [kind |-> "object", items |-> <<>>,
                                 fields |-> DefaultStats]
               /\ load_result' = Returned("load_stats", DefaultStats)
          ELSE /\ load_result' = Returned("load_stats", LoadStats(stats.fields))
               /\ UNCHANGED file_state
    /\ UNCHANGED <<questionsFile, persistVars, sessionVars, widgetVars,
                   historyVars, gradeVars, parseVars, program, tkVars>>

\* load_favorite_ids: set(int(x) for x in data) of an array; int() of a
\* string that is no numeral or of an object raises, which is caught
LoadFavoriteIds ==
    /\ load_result' =
           IF /\ file_state.kind = "array"
              /\ \A i \in 1..Len(file_state.items) :
                    file_state.items[i].kind = "number"
           THEN Returned("load_favorite_ids",
                         {file_state.items[i].val[1] :
                              i \in 1..Len(file_state.items)})
           ELSE Returned("load_favorite_ids", {})
    /\ UNCHANGED <<questionsFile, persistVars, sessionVars, widgetVars,
                   historyVars, gradeVars, parseVars, program, tkVars,
                   file_state>>

InitLoad ==
    /\ questionsFile = Bank
    /\ WindowInit /\ AppInit /\ GradeIdle /\ ParseIdle
    /\ program = "storage"
    /\ file_state \in FileStates
    /\ load_result = <<>>

NextLoad ==
    \/ \E loader \in {"load_questions_from_file", "load_wrong_questions"} :
           LoadList(loader)
    \/ LoadStatsFile
    \/ LoadFavoriteIds

SpecLoad == InitLoad /\ [][NextLoad]_vars

\* ------------------------------------------------------------------------
\* The parser: specification
\* ------------------------------------------------------------------------

\* the longest document
MaxParagraphs == 4

\* a fill-in answer one character too long
LongLine == [i \in 1..(ShortAnswerLimit + 1) |-> "s"]

\* the paragraphs a document is made of: "1、s", " 2.s", "一、填空", "A、s",
\* "Ｂ.t", "正确答案：A", "正确答案:正确", "正确答案：√", "s" and a long line
ParagraphTexts ==
    { <<"1", "dun", "s">>, <<" ", "2", ".", "s">>,
      <<"cn1", "dun", "tian", "kong">>,
      <<"A", "dun", "s">>, <<"FW_B", ".", "t">>,
      AnswerMarker \o <<"fw_colon", "A">>,
      AnswerMarker \o <<":", "zheng", "que">>,
      AnswerMarker \o <<"fw_colon", "check">>,
      <<"s">>, LongLine }

\* the file at docx_path: a document, no file, or a file python-docx cannot
\* read
DocxFile(kind) == [kind |-> kind, items |-> <<>>, fields |-> EmptyDict]

\* a variant that leaves an empty question bank behind
ParseFailsBankEmptied ==
    /\ file_state.kind \in {"missing", "invalid"}
    /\ load_result = <<>>
    /\ load_result' = Raised("parse_docx_and_save_to_json")
    /\ questionsFile' = <<>>
    /\ UNCHANGED <<persistVars, sessionVars, widgetVars, historyVars,
                   gradeVars, parseVars, program, tkVars, file_state>>

\* parse_docx_and_save_to_json when docx_path does not exist
\* (FileNotFoundError) or Document(docx_path) raises: nothing catches the
\* error, and save_questions_to_file is not reached
ParseFails ==
    /\ file_state.kind \in {"missing", "invalid"}
    /\ load_result = <<>>
    /\ load_result' = Raised("parse_docx_and_save_to_json")
    /\ UNCHANGED <<questionsFile, persistVars, sessionVars, widgetVars,
                   historyVars, gradeVars, parseVars, program, tkVars,
                   file_state>>

InitParse ==
    /\ questionsFile = Bank
    /\ WindowInit /\ AppInit /\ GradeIdle
    /\ program = "question_parser"
    /\ load_result = <<>>
    /\ \/ /\ file_state = DocxFile("docx")
          /\ paragraphs \in
                 UNION {[1..k -> ParagraphTexts] : k \in 0..MaxParagraphs}
       \/ /\ file_state \in {DocxFile("missing"), DocxFile("invalid")}
          /\ paragraphs = <<>>
    /\ para_index = 0
    /\ current = <<>>
    /\ state = "none"
    /\ current_section_type = ""
    /\ questions_raw = <<>>
    /\ parsed_questions = <<>>

NextParse == ParseParagraph \/ BuildQuestions \/ ParseFails

SpecParse == InitParse /\ [][NextParse]_vars

\* ------------------------------------------------------------------------
\* Claims about both windows
\* ------------------------------------------------------------------------

ChoiceTypes == {QTYPE_SINGLE, QTYPE_TF}

TextTypes == {QTYPE_BLANK, QTYPE_SHORT}

\* the quiz window waits for the answer of the current question
QtAwaits == program = "qt_app" /\ RoundOpen /\ waiting_answer

\* the Tkinter window waits for the answer of the current question
TkAwaits ==
    program = "gui_app" /\ tk_current_questions # <<>> /\ is_waiting_answer

\* the status a graded question gets for the given verdict
StatusOf(is_correct) == IF is_correct THEN "correct" ELSE "wrong"

\* C11: a submit step with a blank answer on a single-choice or true/false
\* question leaves status, waiting flag, tallies, in-session wrong-set and both
\* files as they were; a submit step with a blank answer on a fill-in or
\* short-answer question grades the question with the empty string as answer.
C11_BlankAnswerPolicy ==
    [][/\ (OnSubmitOrNext /\ QtAwaits) =>
             LET q == CurrentQuestion
                 i == current_index + 1
             IN /\ (q.q_type \in ChoiceTypes /\ Strip(current_option_value) = <<>>)
                      => UNCHANGED <<index_status, waiting_answer, per_type_total,
                                     per_type_correct, wrong_in_session,
                                     statsFile, wrongFile>>
                /\ (q.q_type \in TextTypes /\ Strip(short_answer_text) = <<>>)
                      => /\ ~waiting_answer'
                         /\ index_status'[i] =
                                StatusOf(CheckAnswer(q, <<>>).is_correct)
                         /\ user_answers'[i] = <<>>
                         /\ SumValues(per_type_total') =
                                SumValues(per_type_total) + 1
       /\ (TkOnSubmitOrNext /\ TkAwaits) =>
             LET q == TkCurrentQuestion
                 i == tk_current_index + 1
             IN /\ (q.q_type \in ChoiceTypes /\ Strip(option_var) = <<>>)
                      => UNCHANGED <<is_waiting_answer, tk_per_type_total,
                                     tk_per_type_correct, tk_wrong_in_session,
                                     tk_current_index, statsFile, wrongFile>>
                /\ (q.q_type \in TextTypes /\ Strip(answer_var) = <<>>)
                      => /\ ~is_waiting_answer'
                         /\ tk_current_index' = tk_current_index
                         /\ SumValues(tk_per_type_total') =
                                SumValues(tk_per_type_total) + 1
                         /\ (q.id \in Range(tk_wrong_in_session'))
                                = ~CheckAnswer(q, <<>>).is_correct]_vars

\* the Tkinter window has graded a short-answer question whose entry held
\* white space only
C11_Witness ==
    /\ program = "gui_app"
    /\ tk_current_questions # <<>>
    /\ TkCurrentQuestion.q_type = QTYPE_SHORT
    /\ answer_var = <<" ">>
    /\ ~is_waiting_answer
    /\ tk_wrong_in_session = <<TkCurrentQuestion.id>>
    /\ SumValues(tk_per_type_total) = 1

\* the number of questions of a round whose status is in the given set
CountStatus(status, set) ==
    Cardinality({i \in DOMAIN status : status[i] \in set})

\* this step is QuizApp._finish_session: the round of the Tkinter window closes
TkFinishStep == tk_current_questions # <<>> /\ tk_current_questions' = <<>>

\* C12: when a round finishes, the persisted total_answered is its value at
\* the round's begin plus the number of questions graded in the round, and
\* total_correct its value at begin plus the number graded correct.
C12_StatsFoldedOnce ==
    [][/\ (program = "qt_app" /\ FinishStep) =>
             /\ statsFile'.total_answered =
                    statsAtBegin.total_answered
                    + CountStatus(index_status, {"correct", "wrong"})
             /\ statsFile'.total_correct =
                    statsAtBegin.total_correct
                    + CountStatus(index_status, {"correct"})
       /\ (program = "gui_app" /\ TkFinishStep) =>
             /\ statsFile'.total_answered =
                    statsAtBegin.total_answered
                    + CountStatus(tkStatus, {"correct", "wrong"})
             /\ statsFile'.total_correct =
                    statsAtBegin.total_correct
                    + CountStatus(tkStatus, {"correct"})]_vars

\* a round of the Tkinter window with one correct and one wrong answer has
\* finished and the statistics hold both
C12_Witness ==
    /\ program = "gui_app"
    /\ tk_current_questions = <<>>
    /\ tkStatus = <<"correct", "wrong">>
    /\ statsAtBegin.total_answered = 0
    /\ statsFile.total_answered = 2
    /\ statsFile.total_correct = 1

\* C13: after a graded answer has been merged by _update_stats, the per-type
\* answered count that load_stats returns under the key per_type_total has
\* grown by one for the type of the graded question.
C13_PerTypeTotalGrows ==
    [][\A i \in DOMAIN index_status :
          GradesNow(i) =>
            LET t == current_questions[i].q_type
            IN Get(LoadStats(statsFile').per_type_total, t, 0)
                  = Get(LoadStats(statsFile).per_type_total, t, 0) + 1]_vars

\* the questions of the bank of type t, all of them for "all"
TypePool(t) ==
    LET inPool(q) == t = "all" \/ q.q_type = t
    IN SelectSeq(LoadQuestions(questionsFile), inPool)

\* the round is k questions of type t, pairwise distinct members of the pool
DrawnFrom(round, pool, k, t) ==
    /\ Len(round) = k
    /\ \E f \in [1..Len(round) -> 1..Len(pool)] :
          /\ \A i, j \in 1..Len(round) : i # j => f[i] # f[j]
          /\ \A i \in 1..Len(round) : ToDict(round[i]) = ToDict(pool[f[i]])
    /\ \A i \in 1..Len(round) : t = "all" \/ round[i].q_type = t

\* min(n, pool size)
Clamped(n, pool) == IF n > Len(pool) THEN Len(pool) ELSE n

\* the type the Tk combo box entry stands for
TkTypeOf(choice) == IF choice = "all_types" THEN "all" ELSE TkTypeMap[choice]

\* the state every begun round of the Qt window starts in
QtRoundFresh ==
    /\ program = "qt_app" /\ current_questions # <<>> /\ current_index = 0
    /\ \A i \in DOMAIN index_status : index_status[i] = "unanswered"

\* the state every begun round of the Tk window starts in
TkRoundFresh ==
    /\ program = "gui_app" /\ tk_current_questions # <<>> /\ tk_current_index = 0
    /\ \A i \in DOMAIN tkStatus : tkStatus[i] = "unanswered"

\* C18: a start of a round with a requested count n >= 1 and a non-empty pool
\* (the bank filtered by the requested type, or the wrong-question file) gives
\* a round of exactly min(n, pool size) questions that are pairwise distinct
\* members of the pool and of the requested type, in either window.
C18_SelectionClamp ==
    [][/\ QtRoundFresh' /\ mode' = "normal" =>
            \A t \in QTypes \cup {"all"} :
                LET pool == TypePool(t)
                IN pool # <<>> =>
                     \A n \in 1..MaxCount :
                         OnStartNormal(t, n) =>
                             DrawnFrom(current_questions', pool, Clamped(n, pool), t)
       /\ QtRoundFresh' /\ mode' = "wrong" /\ wrongFile # <<>> =>
            \A n \in 1..MaxCount :
                OnStartWrong(n) =>
                    DrawnFrom(current_questions', LoadQuestions(wrongFile),
                              Clamped(n, wrongFile), "all")
       /\ TkRoundFresh' /\ current_mode' = "normal" =>
            \A choice \in TkTypeChoices :
                LET pool == TypePool(TkTypeOf(choice))
                IN pool # <<>> =>
                     \A n \in 1..MaxCount :
                         OnStartNormalQuiz(choice, n) =>
                             DrawnFrom(tk_current_questions', pool,
                                       Clamped(n, pool), TkTypeOf(choice))
       /\ TkRoundFresh' /\ current_mode' = "wrong" /\ wrongFile # <<>> =>
            \A n \in 1..MaxCount :
                OnStartWrongQuiz(n) =>
                    DrawnFrom(tk_current_questions', LoadQuestions(wrongFile),
                              Clamped(n, wrongFile), "all")]_vars

\* a wrong-question round holds the whole wrong-question file, which is
\* shorter than the largest count that can be requested, and nothing of the
\* round has been answered yet
C18_Witness ==
    \/ /\ program = "qt_app" /\ mode = "wrong"
       /\ Len(current_questions) = Len(wrongFile)
       /\ Len(wrongFile) \in 1..(MaxCount - 1)
       /\ \A i \in DOMAIN index_status : index_status[i] = "unanswered"
    \/ /\ program = "gui_app" /\ current_mode = "wrong"
       /\ Len(tk_current_questions) = Len(wrongFile)
       /\ Len(wrongFile) \in 1..(MaxCount - 1)
       /\ \A i \in DOMAIN tkStatus : tkStatus[i] = "unanswered"

\* C19: load_questions_from_file, load_wrong_questions, load_stats and
\* load_favorite_ids return a value and never raise, whatever state the file
\* is in.
C19_LoadingNeverRaises ==
    load_result # <<>> => ~load_result[1].raised

\* the ids of the round's questions that were never graded
NeverGraded ==
    {current_questions[i].id :
        i \in {k \in DOMAIN index_status : index_status[k] = "unanswered"}}

\* what the finished round added to the statistics: nothing at the finish
\* itself, and one answer per graded question before it
OnlyGradedCounted ==
    /\ statsFile' = statsFile
    /\ statsFile'.total_answered =
           statsAtBegin.total_answered
           + CountStatus(index_status, {"correct", "wrong"})

RevisitsGraded ==
    /\ program = "qt_app"
    /\ current_questions # <<>> /\ current_questions' # <<>>
    /\ current_index' # current_index
    /\ index_status' = index_status
    /\ index_status[current_index' + 1] # "unanswered"

\* C23: when the user moves to a question already graded in this round, the
\* verdict the feedback pane shows is the one recorded when the question was
\* submitted.
C23_StoredFeedbackOnRevisit ==
    [][RevisitsGraded =>
          ShowExistingFeedback(user_answers', current_index').shown
              = index_status[current_index' + 1]]_vars

\* C26: while a round is open in the Qt window, current_index is the index
\* of one of its questions, waiting_answer holds exactly when the current
\* question is unanswered, the sum of per_type_total is the number of graded
\* questions and the sum of per_type_correct the number graded correct.
C26_SessionConsistent ==
    program = "qt_app" /\ current_questions # <<>> =>
        /\ 0 <= current_index /\ current_index < Len(current_questions)
        /\ Len(index_status) = Len(current_questions)
        /\ waiting_answer <=> index_status[current_index + 1] = "unanswered"
        /\ SumValues(per_type_total)
               = CountStatus(index_status, {"correct", "wrong"})
        /\ SumValues(per_type_correct) = CountStatus(index_status, {"correct"})

\* the user has come back to a graded question of a round with one answer
\* correct and one wrong
C26_Witness ==
    /\ program = "qt_app" /\ current_questions # <<>>
    /\ index_status = <<"correct", "wrong">>
    /\ current_index = 0
    /\ ~waiting_answer
    /\ SumValues(per_type_total) = 2

\* the round's questions that were answered wrong, which stored them in the
\* wrong-question file at once, and that the user has removed from it since
RemovedAfterWrong ==
    {id \in Range(wrong_in_session) : id \notin Ids(wrongFile)}

\* C27: a question the user removed from the wrong-question book during the
\* round, and did not answer wrong after the removal, is absent from the
\* persisted wrong-question file after _finish_session.
C27_RemovalSurvivesFinish ==
    [][(program = "qt_app" /\ FinishStep) =>
           \A id \in RemovedAfterWrong : id \notin Ids(wrongFile')]_vars

\* C28: every question of a round can be graded: while a question awaits
\* its answer, some input of the user makes the submit handler grade it.  The
\* handler grades a question of another type with any text, and a
\* single-choice or true/false question only with the value of a radio button,
\* so such a question must have a button on display.
C28_EveryQuestionGradable ==
    /\ program = "qt_app" /\ QtAwaits
           /\ CurrentQuestion.q_type \in {QTYPE_SINGLE, QTYPE_TF}
           => option_buttons # {} \/ Strip(current_option_value) # <<>>
    /\ program = "gui_app" /\ TkAwaits
           /\ TkCurrentQuestion.q_type \in {QTYPE_SINGLE, QTYPE_TF}
           => options_frame # {} \/ Strip(option_var) # <<>>

\* C30: the Tkinter window persists only at the finish: no step of a round
\* other than _finish_session changes the statistics file or the
\* wrong-question file, so while a round is open, and when it is abandoned by
\* the start of another, both are as they were when the round began.
C30_TkPersistsOnlyAtFinish ==
    [][program = "gui_app" =>
          /\ ~TkFinishStep => statsFile' = statsFile /\ wrongFile' = wrongFile
          /\ tk_current_questions # <<>> =>
                 /\ statsFile = statsAtBegin
                 /\ ReadBackCounts(wrongFile) = wrongAtBegin]_vars

\* a round of two questions in which the first was graded wrong and the
\* window has moved on to the second, and nothing has been persisted
C30_Witness ==
    /\ program = "gui_app"
    /\ Len(tk_current_questions) = 2
    /\ tkStatus = <<"wrong", "unanswered">>
    /\ tk_current_index = 1
    /\ statsFile = statsAtBegin
    /\ LoadStats(statsFile).total_answered = 0
    /\ wrongFile = <<>>

\* ------------------------------------------------------------------------
\* Claims about the parser
\* ------------------------------------------------------------------------

\* paragraph i as the loop sees it
Stripped(i) == Strip(paragraphs[i])

\* the paragraphs that start a question
QuestionStarts ==
    {i \in 1..Len(paragraphs) :
        /\ Stripped(i) # <<>>
        /\ SectionMatch(Stripped(i)) = <<>>
        /\ QuestionStartMatch(Stripped(i)) # <<>>}

StartNumber(i) == IntOf(QuestionStartMatch(Stripped(i))[1].head)

IsMarkerLine(i) ==
    i \notin QuestionStarts /\ StartsWith(Stripped(i), AnswerMarker)

\* the last question start among the first n paragraphs, 0 for none
LastStart(n) ==
    LET before == QuestionStarts \cap (1..n)
    IN IF before = {} THEN 0 ELSE CHOOSE i \in before : \A j \in before : j <= i

\* among the first n paragraphs the open question's marker has been read
MarkerSeen(n) ==
    LastStart(n) > 0 /\ \E j \in (LastStart(n) + 1)..n : IsMarkerLine(j)

EveryStartHasMarker ==
    \A i \in QuestionStarts :
        \E j \in (i + 1)..Len(paragraphs) :
            IsMarkerLine(j) /\ LastStart(j) = i

Parsed == parsed_questions # <<>>

Output == parsed_questions[1]

\* C14: when every question-start line is followed by an answer marker before
\* the next question start, the parser returns one question per question-start
\* line, the ids are the numbers of those lines, and the list is in ascending
\* order of id.
C14_OutputShape ==
    Parsed /\ EveryStartHasMarker =>
        /\ Len(Output) = Cardinality(QuestionStarts)
        /\ \A v \in Ids(Output) \cup {StartNumber(i) : i \in QuestionStarts} :
              Cardinality({k \in 1..Len(Output) : Output[k].id = v})
                = Cardinality({i \in QuestionStarts : StartNumber(i) = v})
        /\ \A k \in 1..(Len(Output) - 1) : Output[k].id <= Output[k + 1].id

\* a document whose second question has the smaller number was parsed
C14_Witness ==
    /\ Parsed /\ EveryStartHasMarker
    /\ \E i, j \in QuestionStarts : i < j /\ StartNumber(i) > StartNumber(j)
    /\ Len(Output) = 2

\* C15: the question bank the parser writes holds no two questions with the
\* same id.
C15_BankIdsUnique ==
    Parsed =>
        \A i, j \in 1..Len(questionsFile) :
            i # j => questionsFile[i].id # questionsFile[j].id

\* the reference answers "正确" and "错"
TrueFalseTokens == { <<"zheng", "que">>, <<"cuo">> }

\* the answer text of a raw question, as the parser joins it
RawAnswer(raw) == Strip(Join(raw.answer_lines, <<>>))

\* some question of the output has this raw question's number and options and
\* the type t
TypedAs(raw, t) ==
    \E k \in 1..Len(Output) :
        /\ Output[k].id = raw.number
        /\ Output[k].options = raw.options
        /\ Output[k].q_type = t

RawQuestions == {questions_raw[i] : i \in 1..Len(questions_raw)}

\* C16, as stated: a question with options and no section type is
\* single-choice, and a question without options whose answer is a true/false
\* token is true/false under whatever section heading it stands.
C16_TrueFalseRegardlessOfSection ==
    Parsed =>
        \A raw \in RawQuestions :
            /\ raw.q_type = "" /\ DOMAIN raw.options # {}
                   => TypedAs(raw, QTYPE_SINGLE)
            /\ DOMAIN raw.options = {} /\ RawAnswer(raw) \in TrueFalseTokens
                   => TypedAs(raw, QTYPE_TF)

\* C16, amended: a question with options and no section type is single-choice;
\* a question without options whose answer is a true/false token is true/false
\* when it stands under no typed section heading; a question under a typed
\* section heading has the heading's type.
C16_TypeInference ==
    Parsed =>
        \A raw \in RawQuestions :
            /\ raw.q_type = "" /\ DOMAIN raw.options # {}
                   => TypedAs(raw, QTYPE_SINGLE)
            /\ raw.q_type = "" /\ DOMAIN raw.options = {}
                   /\ RawAnswer(raw) \in TrueFalseTokens
                   => TypedAs(raw, QTYPE_TF)
            /\ raw.q_type # "" => TypedAs(raw, raw.q_type)

\* a document with an untyped question with options, and an untyped question
\* without options answered by a true/false token, was parsed
C16_Witness ==
    /\ Parsed
    /\ \E raw \in RawQuestions : raw.q_type = "" /\ DOMAIN raw.options # {}
    /\ \E raw \in RawQuestions :
          /\ raw.q_type = "" /\ DOMAIN raw.options = {}
          /\ RawAnswer(raw) \in TrueFalseTokens

\* paragraph i has the shape of an option and of nothing that is looked for
\* earlier
OptionShaped(i) ==
    /\ Stripped(i) # <<>>
    /\ SectionMatch(Stripped(i)) = <<>>
    /\ i \notin QuestionStarts
    /\ ~IsMarkerLine(i)
    /\ OptionMatch(Stripped(i)) # <<>>

\* C17: a line of option shape read after the open question's answer marker
\* is appended to the answer lines and leaves the options as they are; read
\* before the marker it is recorded as an option.
C17_AnswerStateKeepsOptions ==
    [][para_index' = para_index + 1 /\ OptionShaped(para_index')
          /\ LastStart(para_index) > 0 =>
        LET text == Stripped(para_index')
            opt == OptionMatch(text)[1]
        IN IF MarkerSeen(para_index)
           THEN /\ current'[1].answer_lines = Append(current[1].answer_lines, text)
                /\ current'[1].options = current[1].options
           ELSE /\ opt.label \in DOMAIN current'[1].options
                /\ current'[1].options[opt.label] = opt.content
                /\ current'[1].answer_lines = current[1].answer_lines]_vars

\* a line of option shape was read after the marker of a question that has
\* an option
C17_Witness ==
    /\ para_index >= 1
    /\ OptionShaped(para_index)
    /\ MarkerSeen(para_index - 1)
    /\ DOMAIN current[1].options # {}
    /\ current[1].answer_lines[Len(current[1].answer_lines)] = Stripped(para_index)

\* no other raw question has this one's number
UniqueNumber(raw) ==
    Cardinality({i \in 1..Len(questions_raw) :
                    questions_raw[i].number = raw.number}) = 1

\* the true/false tokens: 对 错 正确 错误 TRUE FALSE T F 1 0
StatedTfTokens ==
    { <<"dui">>, <<"cuo">>, <<"zheng", "que">>, <<"cuo", "wu">>,
      <<"T", "R", "U", "E">>, <<"F", "A", "L", "S", "E">>, <<"T">>, <<"F">>,
      <<"1">>, <<"0">> }

\* the answer is one line of at most 20 characters
OneShortLine(raw) ==
    /\ Len(raw.answer_lines) <= 1
    /\ "NL" \notin Range(RawAnswer(raw))
    /\ Len(RawAnswer(raw)) <= 20

\* C24: a raw question without section type and without options is typed
\* true/false exactly when its normalized answer is a true/false token;
\* otherwise it is typed fill-in exactly when its answer is a single line of
\* at most 20 characters, and short-answer when the answer has more than one
\* line or more than 20 characters.
C24_InferencePriority ==
    Parsed =>
        \A raw \in RawQuestions :
            raw.q_type = "" /\ DOMAIN raw.options = {} /\ UniqueNumber(raw) =>
                LET isTf == Upper(RemoveChar(RawAnswer(raw), " ")) \in StatedTfTokens
                IN /\ TypedAs(raw, QTYPE_TF) <=> isTf
                   /\ ~isTf => (TypedAs(raw, QTYPE_BLANK) <=> OneShortLine(raw))
                   /\ ~isTf /\ ~OneShortLine(raw) => TypedAs(raw, QTYPE_SHORT)

\* paragraph i is a section heading
IsSectionLine(i) == Stripped(i) # <<>> /\ SectionMatch(Stripped(i)) # <<>>

\* among the first n paragraphs a section heading follows the last question
\* start
HeadingSinceStart(n) ==
    LastStart(n) > 0 /\ \E j \in (LastStart(n) + 1)..n : IsSectionLine(j)

\* C25: a line between a section heading and the next question start is
\* appended neither to the answer nor to the prompt of the question that
\* preceded the heading.
C25_HeadingEndsAnswerBlock ==
    [][para_index' = para_index + 1 /\ HeadingSinceStart(para_index)
          /\ para_index' \notin QuestionStarts =>
        /\ current'[1].answer_lines = current[1].answer_lines
        /\ current'[1].text_lines = current[1].text_lines]_vars

\* C29: every question the parser types true/false from its answer alone (no
\* section type, no options) has a reference answer the grader maps to T or
\* F, so that some user answer is graded correct.
C29_TfVocabularyAgrees ==
    Parsed =>
        \A k \in 1..Len(Output) :
            /\ Output[k].q_type = QTYPE_TF
            /\ \E raw \in RawQuestions :
                  /\ raw.number = Output[k].id
                  /\ raw.q_type = "" /\ DOMAIN raw.options = {}
                  /\ RawAnswer(raw) = Output[k].answer
            => /\ NormalizeTfCorrectAnswer(Output[k].answer) \in {<<"T">>, <<"F">>}
               /\ \E user_raw \in {<<"T">>, <<"F">>} :
                     CheckAnswer(Output[k], user_raw).is_correct

\* C22: when the document is missing or cannot be read, the import raises,
\* and the question bank, the wrong-question file and the statistics stay
\* exactly as they were.
C22_FailedImportWritesNothing ==
    [][/\ file_state.kind \in {"missing", "invalid"} =>
            /\ load_result' = Raised("parse_docx_and_save_to_json")
            /\ UNCHANGED <<questionsFile, wrongFile, statsFile>>
       /\ load_result' # <<>> /\ load_result'[1].raised =>
            UNCHANGED <<questionsFile, wrongFile, statsFile>>]_vars

\* an import of a missing document has raised and the bank is still there
C22_Witness ==
    /\ file_state = DocxFile("missing")
    /\ load_result = Raised("parse_docx_and_save_to_json")
    /\ questionsFile = Bank
    /\ parsed_questions = <<>>

\* ------------------------------------------------------------------------
\* Claims about wrong-question practice
\* ------------------------------------------------------------------------

\* the ids of the Tkinter round's questions that have the given status
TkIdsWithStatus(status) ==
    {tk_current_questions[i].id :
        i \in {k \in DOMAIN tkStatus : tkStatus[k] = status}}

\* every entry of the file before whose id is not among ids is an entry of the
\* file after
OthersKept(before, after, ids) ==
    \A k \in 1..Len(before) :
        before[k].id \notin ids => \E j \in 1..Len(after) : after[j] = before[k]

\* the ids of the questions of the round with the given verdict
IdsJudged(questions, ok, verdict) ==
    {questions[i].id : i \in {k \in 1..Len(questions) : ok[k] = verdict}}

\* C21: after a wrong-question round of the Tkinter window or of the command
\* line, the ids in the wrong-question file are the ids before the round
\* without those of the round's questions answered correctly, together with
\* those answered incorrectly, and the entries that were not in the round are
\* as they were.
C21_WrongRoundFinish ==
    [][/\ TkFinishStep /\ current_mode = "wrong" =>
            /\ Ids(wrongFile') =
                   ((DOMAIN wrongAtBegin) \ TkIdsWithStatus("correct"))
                   \cup TkIdsWithStatus("wrong")
            /\ OthersKept(wrongFile, wrongFile', Ids(tk_current_questions))
       /\ tk_current_questions = <<>> /\ statsFile' # statsFile =>
            \A num \in 1..MaxCount :
            \A questions \in WrongRounds(num) :
            \A raws \in RoundAnswers(questions), judged \in [1..num -> BOOLEAN] :
                RunWrongQuizWith(questions, raws, judged) =>
                    LET ok == [i \in 1..num |->
                                  SessionVerdict(questions, raws, judged, i)]
                    IN /\ Ids(wrongFile') =
                              (Ids(wrongFile) \ IdsJudged(questions, ok, TRUE))
                              \cup IdsJudged(questions, ok, FALSE)
                       /\ OthersKept(wrongFile, wrongFile', Ids(questions))]_vars

\* a wrong-question round of the Tkinter window over two of three entries has
\* finished with one answer correct and one wrong
C21_Witness ==
    /\ program = "gui_app"
    /\ tk_current_questions = <<>>
    /\ Len(tkStatus) = 2
    /\ \E i, j \in DOMAIN tkStatus :
          tkStatus[i] = "correct" /\ tkStatus[j] = "wrong"
    /\ Cardinality(DOMAIN wrongAtBegin) = 3
    /\ Len(wrongFile) = 2
    /\ statsFile.total_answered = 2

====
